---- MODULE Spec2Model ----
(***************************************************************************)
(* A model of the GPT-4o vision fine-tuning notebook                       *)
(* (labs/fine_tuning_notebooks/gpt_fine_tuning/gpt_4o_vision_fine_tuning). *)
(*                                                                         *)
(* Five specifications share the module:                                   *)
(*   SpecWriter  the cell that converts the dataset splits to JSONL files  *)
(*   SpecEval    the evaluation cells: ds_test_eval, the retry-wrapped     *)
(*               query_image and evaluate, the accuracy aggregation        *)
(*   Spec        the notebook run from top to bottom: connection test,     *)
(*               dataset conversion, uploads, job creation and inspection, *)
(*               deployment, test query, evaluation                        *)
(*   SpecTables  the two display helpers, date_sorted_df and               *)
(*               show_ft_metrics, applied to a table                       *)
(*   SpecRerun   the JSONL cell run where files of an earlier run may      *)
(*               exist                                                     *)
(*                                                                         *)
(* Text is a sequence of glyphs.  A glyph is a string holding either one   *)
(* character or an opaque run of characters; the quote, the backslash and  *)
(* the line feed only ever occur as one-character glyphs.                  *)
(***************************************************************************)
EXTENDS Integers, Sequences, FiniteSets, TLC

VARIABLES
    \* ---- dataset conversion (the JSONL cell)
    datasets,     \* <<ds_train, ds_val, ds_test>>: each a sequence of rows
    wpc,          \* position in the JSONL cell
    split_i,      \* index into splits of the split being converted
    idx,          \* enumerate() index of the next row of the split
    json_data,    \* the records collected for the current split
    files,        \* the local file system: file name -> content or NoFile
    log,          \* what the cell printed for failed rows
    \* ---- evaluation (the cells from ds_test_eval on)
    ds_test,        \* the test split the evaluation starts from
    ds_test_eval,   \* the evaluation table: its rows and its added columns
    epc,            \* the evaluation cell being run
    row_i,          \* DataFrame.apply: the next row (1-based)
    partial,        \* DataFrame.apply: the results of the rows done
    rstate,         \* the retry wrapper: idle, attempt, waitremote, sleep
    attempt_number, \* the retry wrapper's attempt counter
    events,         \* the attempts and sleeps of the current wrapped call
    inflight,       \* the remote calls issued and not yet answered
    returned,       \* what the retry wrapper last returned to its caller
    raised,         \* the exception that ended the run, if any
    chart_data,     \* the accuracies the last cell reports
    \* ---- the cells around them, and the remote service they talk to
    ppc,              \* the next cell that makes a remote call outside the wrapper
    pcalls,           \* the remote calls those cells made, with their outcomes
    remote_files,     \* service: the uploaded files; a file's id is its position
    jobs,             \* service: job id -> the fine-tuning job's record
    deployments,      \* service: the names of the fine-tuned deployments
    train_file,       \* id of the uploaded training file
    val_file,         \* id of the uploaded validation file
    ft_job,           \* the job snapshot the notebook holds
    fine_tuned_model, \* ft_job.to_dict()['fine_tuned_model']
    r_response,       \* r, the response of requests.put
    \* ---- the display helpers
    tpc,              \* the helper being called
    results_df,       \* show_ft_metrics: the metrics table
    figure,           \* show_ft_metrics: the four curves it plots
    details_dict,     \* date_sorted_df: the rows it is given
    sorted_df         \* date_sorted_df: the table it returns

writerVars == <<datasets, wpc, split_i, idx, json_data, files, log>>

evalVars == <<ds_test, ds_test_eval, epc, row_i, partial, rstate, attempt_number,
              events, inflight, returned, raised, chart_data>>

pipelineVars == <<ppc, pcalls, remote_files, jobs, deployments, train_file, val_file,
                  ft_job, fine_tuned_model, r_response,
                  tpc, results_df, figure, details_dict, sorted_df>>

vars == <<datasets, wpc, split_i, idx, json_data, files, log,
          ds_test, ds_test_eval, epc, row_i, partial, rstate, attempt_number,
          events, inflight, returned, raised, chart_data,
          ppc, pcalls, remote_files, jobs, deployments, train_file, val_file,
          ft_job, fine_tuned_model, r_response,
          tpc, results_df, figure, details_dict, sorted_df>>

-----------------------------------------------------------------------------
(* Bounds of the model *)

\* The three splits together hold at most MaxRows rows.
MaxRows == 2

\* The test split the evaluation starts from holds at most MaxEvalRows rows.
MaxEvalRows == 2

-----------------------------------------------------------------------------
(* Exceptions, and the values of the parts of the notebook that have not run *)

\* an exception: its type and, for one that wraps another, the wrapped type
Exc(type) == [type |-> type, wraps |-> "none"]
NoException == Exc("none")

NoColumn == [set |-> FALSE, vals |-> <<>>]
ColumnNames == {"gpt-4o-base-pred", "gpt-4o-ft-pred", "gpt-4o-base-eval", "gpt-4o-ft-eval"}
NoTable == [rows |-> <<>>, cols |-> [c \in ColumnNames |-> NoColumn]]
NoChart == [set |-> FALSE, baseline_accuracy |-> <<0, 1>>, fine_tuned_accuracy |-> <<0, 1>>]

\* the dataset conversion has not started
WriterIdle ==
    /\ datasets = <<(<<>>), (<<>>), (<<>>)>>
    /\ wpc = "idle"
    /\ split_i = 1
    /\ idx = 0
    /\ json_data = <<>>
    /\ log = <<>>

\* the evaluation has not started
EvalIdle ==
    /\ ds_test = <<>>
    /\ ds_test_eval = NoTable
    /\ epc = "idle"
    /\ row_i = 1
    /\ partial = <<>>
    /\ rstate = "idle"
    /\ attempt_number = 0
    /\ events = <<>>
    /\ inflight = {}
    /\ returned = "none"
    /\ raised = NoException
    /\ chart_data = NoChart

\* the job the retrieve cell names, and the job the create cell starts
HardCodedJob == "ftjob-0a4c9b22f32e44b4a133c83edc31107b"
NewJob == "ftjob-new"
JobIds == {HardCodedJob, NewJob}

\* a job record of the service; NoJob where the service holds no such job
Job(status, training_file, validation_file) ==
    [status |-> status, training_file |-> training_file,
     validation_file |-> validation_file,
     fine_tuned_model |-> IF status = "succeeded" THEN "gpt-4o-2024-08-06.ft" ELSE "None",
     result_files |-> IF status = "succeeded" THEN <<"file-results">> ELSE <<>>]
NoJob == Job("absent", 0, 0)

NoSnapshot == [id |-> "none", job |-> NoJob]
NoResponse == [status_code |-> 0]

\* no display helper is being called
NoFigure == [curves |-> <<>>]
TablesIdle ==
    /\ tpc = "idle"
    /\ results_df = <<>>
    /\ figure = NoFigure
    /\ details_dict = <<>>
    /\ sorted_df = <<>>

\* the cells around the conversion and the evaluation have not run
PipelineIdle ==
    /\ ppc = "idle"
    /\ pcalls = <<>>
    /\ remote_files = <<>>
    /\ jobs = [id \in JobIds |-> NoJob]
    /\ train_file = 0
    /\ val_file = 0
    /\ ft_job = NoSnapshot
    /\ fine_tuned_model = "None"
    /\ r_response = NoResponse

-----------------------------------------------------------------------------
(* Python values: str, None, list, dict (insertion ordered) *)

PyStr(s) == [t |-> "str", s |-> s]
PyNone == [t |-> "None"]
PyList(xs) == [t |-> "list", xs |-> xs]
\* kvs: a sequence of <<key glyphs, value>> pairs in insertion order
PyDict(kvs) == [t |-> "dict", kvs |-> kvs]

QUOTE == "\""
BACKSLASH == "\\"
NEWLINE == "\n"
\* the one-character glyph of a character outside ASCII (e with acute accent)
EACUTE == "U+00E9"

Max(a, b) == IF a >= b THEN a ELSE b
Min(a, b) == IF a <= b THEN a ELSE b

RECURSIVE Concat(_)
\* the concatenation of a sequence of sequences
Concat(ss) == IF ss = <<>> THEN <<>> ELSE Head(ss) \o Concat(Tail(ss))

DigitGlyphs == <<"0", "1", "2", "3", "4", "5", "6", "7", "8", "9">>

RECURSIVE Digits(_)
\* str(n) for a natural number n
Digits(n) == IF n < 10 THEN <<DigitGlyphs[n + 1]>>
             ELSE Digits(n \div 10) \o <<DigitGlyphs[(n % 10) + 1]>>

\* what an f-string's {value} renders
FormatValue(v) == IF v.t = "str" THEN v.s ELSE <<"None">>

-----------------------------------------------------------------------------
(* encode_image: convert to RGB, save as JPEG, base64 *)

\* An image: its mode, one sample per pixel, the alpha of an RGBA image, and
\* the exception its decoding raises, if any (Image.open is lazy).
NoImage == [mode |-> "None", px |-> <<>>, alpha |-> 255, fault |-> "AttributeError"]

ConvertRGB(image) == [image EXCEPT !.mode = "RGB", !.alpha = 255]

\* libjpeg's quality scaling of the quantisation table's DC entry (16)
JpegQuantStep(quality) ==
    LET scale == IF quality < 50 THEN 5000 \div quality ELSE 200 - 2 * quality
    IN Max(1, Min(255, (16 * scale + 50) \div 100))

\* image.save(buffered, format="JPEG", quality=quality): one quantised
\* coefficient per sample
JpegSave(image, quality) ==
    LET step == JpegQuantStep(quality)
    IN [i \in 1..Len(image.px) |-> Min(255, (image.px[i] + step \div 2) \div step)]

\* what a JPEG decoder makes of those bytes
JpegOpen(bytes, quality) ==
    [mode |-> "RGB",
     px |-> [i \in 1..Len(bytes) |-> Min(255, bytes[i] * JpegQuantStep(quality))],
     alpha |-> 255, fault |-> "none"]

B64Alphabet ==
    <<"A","B","C","D","E","F","G","H","I","J","K","L","M","N","O","P",
      "Q","R","S","T","U","V","W","X","Y","Z","a","b","c","d","e","f",
      "g","h","i","j","k","l","m","n","o","p","q","r","s","t","u","v",
      "w","x","y","z","0","1","2","3","4","5","6","7","8","9","+","/">>

RECURSIVE b64encode(_)
\* base64.b64encode(bytes).decode("utf-8")
b64encode(bytes) ==
    IF bytes = <<>> THEN <<>>
    ELSE LET n == Len(bytes)
             b1 == bytes[1]
             b2 == IF n >= 2 THEN bytes[2] ELSE 0
             b3 == IF n >= 3 THEN bytes[3] ELSE 0
             w == b1 * 65536 + b2 * 256 + b3
             c1 == B64Alphabet[(w \div 262144) + 1]
             c2 == B64Alphabet[((w \div 4096) % 64) + 1]
             c3 == IF n >= 2 THEN B64Alphabet[((w \div 64) % 64) + 1] ELSE "="
             c4 == IF n >= 3 THEN B64Alphabet[(w % 64) + 1] ELSE "="
         IN <<c1, c2, c3, c4>> \o (IF n > 3 THEN b64encode(SubSeq(bytes, 4, n)) ELSE <<>>)

B64Index(c) == IF c = "=" THEN 0 ELSE (CHOOSE i \in 1..64 : B64Alphabet[i] = c) - 1

RECURSIVE b64decode(_)
b64decode(chars) ==
    IF Len(chars) < 4 THEN <<>>
    ELSE LET w == B64Index(chars[1]) * 262144 + B64Index(chars[2]) * 4096
                  + B64Index(chars[3]) * 64 + B64Index(chars[4])
             b1 == w \div 65536
             b2 == (w \div 256) % 256
             b3 == w % 256
             group == IF chars[3] = "=" THEN <<b1>>
                      ELSE IF chars[4] = "=" THEN <<b1, b2>>
                      ELSE <<b1, b2, b3>>
         IN group \o b64decode(SubSeq(chars, 5, Len(chars)))

\* the exception encode_image raises on this image, or "none"
EncodeError(image) == image.fault

\* encode_image(image, quality)
encode_image(image, quality) ==
    LET rgb == IF image.mode # "RGB" THEN ConvertRGB(image) ELSE image
    IN b64encode(JpegSave(rgb, quality))

-----------------------------------------------------------------------------
(* json.dump with the default separators and ensure_ascii *)

\* EscapeGlyph without the escape of the line feed
EscapeGlyphRawNewline(g) ==
    CASE g = QUOTE -> <<BACKSLASH, QUOTE>>
      [] g = BACKSLASH -> <<BACKSLASH, BACKSLASH>>
      [] g = EACUTE -> <<BACKSLASH, "u00e9">>
      [] OTHER -> <<g>>

\* the glyphs json.dump writes for one glyph of a str
EscapeGlyph(g) ==
    CASE g = QUOTE -> <<BACKSLASH, QUOTE>>
      [] g = BACKSLASH -> <<BACKSLASH, BACKSLASH>>
      [] g = NEWLINE -> <<BACKSLASH, "n">>
      [] g = EACUTE -> <<BACKSLASH, "u00e9">>
      [] OTHER -> <<g>>

JsonString(s) ==
    <<QUOTE>> \o Concat([i \in 1..Len(s) |-> EscapeGlyph(s[i])]) \o <<QUOTE>>

RECURSIVE JsonDump(_)
JsonDump(v) ==
    CASE v.t = "str" -> JsonString(v.s)
      [] v.t = "None" -> <<"null">>
      [] v.t = "list" ->
            <<"[">>
            \o Concat([i \in 1..Len(v.xs) |->
                   (IF i > 1 THEN <<", ">> ELSE <<>>) \o JsonDump(v.xs[i])])
            \o <<"]">>
      [] v.t = "dict" ->
            <<"{">>
            \o Concat([i \in 1..Len(v.kvs) |->
                   (IF i > 1 THEN <<", ">> ELSE <<>>)
                   \o JsonString(v.kvs[i][1]) \o <<": ">> \o JsonDump(v.kvs[i][2])])
            \o <<"}">>

-----------------------------------------------------------------------------
(* json.loads, for reading a written line back *)

ParseFail == [ok |-> FALSE, v |-> PyNone, next |-> 0]

RECURSIVE ScanString(_, _, _)
\* s[j..] continues a string literal whose glyphs so far are acc
ScanString(s, j, acc) ==
    IF j > Len(s) THEN ParseFail
    ELSE IF s[j] = QUOTE THEN [ok |-> TRUE, v |-> PyStr(acc), next |-> j + 1]
    ELSE IF s[j] = NEWLINE THEN ParseFail
    ELSE IF s[j] = BACKSLASH THEN
        IF j + 1 > Len(s) THEN ParseFail
        ELSE CASE s[j + 1] = QUOTE -> ScanString(s, j + 2, Append(acc, QUOTE))
               [] s[j + 1] = BACKSLASH -> ScanString(s, j + 2, Append(acc, BACKSLASH))
               [] s[j + 1] = "n" -> ScanString(s, j + 2, Append(acc, NEWLINE))
               [] s[j + 1] = "u00e9" -> ScanString(s, j + 2, Append(acc, EACUTE))
               [] OTHER -> ParseFail
    ELSE ScanString(s, j + 1, Append(acc, s[j]))

RECURSIVE ParseValue(_, _)
RECURSIVE ParseItems(_, _, _)
RECURSIVE ParseMembers(_, _, _)

\* the JSON value that starts at s[i]
ParseValue(s, i) ==
    IF i > Len(s) THEN ParseFail
    ELSE CASE s[i] = QUOTE -> ScanString(s, i + 1, <<>>)
           [] s[i] = "null" -> [ok |-> TRUE, v |-> PyNone, next |-> i + 1]
           [] s[i] = "[" ->
                IF i + 1 <= Len(s) /\ s[i + 1] = "]"
                THEN [ok |-> TRUE, v |-> PyList(<<>>), next |-> i + 2]
                ELSE ParseItems(s, i + 1, <<>>)
           [] s[i] = "{" ->
                IF i + 1 <= Len(s) /\ s[i + 1] = "}"
                THEN [ok |-> TRUE, v |-> PyDict(<<>>), next |-> i + 2]
                ELSE ParseMembers(s, i + 1, <<>>)
           [] OTHER -> ParseFail

\* the items of a list from s[i] on, after the items acc
ParseItems(s, i, acc) ==
    LET item == ParseValue(s, i)
    IN IF ~item.ok \/ item.next > Len(s) THEN ParseFail
       ELSE CASE s[item.next] = "]" ->
                    [ok |-> TRUE, v |-> PyList(Append(acc, item.v)), next |-> item.next + 1]
              [] s[item.next] = ", " -> ParseItems(s, item.next + 1, Append(acc, item.v))
              [] OTHER -> ParseFail

\* the members of an object from s[i] on, after the members acc
ParseMembers(s, i, acc) ==
    IF i > Len(s) \/ s[i] # QUOTE THEN ParseFail
    ELSE LET key == ScanString(s, i + 1, <<>>)
         IN IF ~key.ok \/ key.next > Len(s) \/ s[key.next] # ": " THEN ParseFail
            ELSE LET val == ParseValue(s, key.next + 1)
                     kvs == Append(acc, <<key.v.s, val.v>>)
                 IN IF ~val.ok \/ val.next > Len(s) THEN ParseFail
                    ELSE CASE s[val.next] = "}" ->
                                 [ok |-> TRUE, v |-> PyDict(kvs), next |-> val.next + 1]
                           [] s[val.next] = ", " -> ParseMembers(s, val.next + 1, kvs)
                           [] OTHER -> ParseFail

\* json.loads(line): the whole line is one JSON value
JsonLoads(line) ==
    LET r == ParseValue(line, 1)
    IN IF r.ok /\ r.next = Len(line) + 1 THEN r ELSE ParseFail

\* the lines of a file's content: what stands between the line feeds (text
\* after the last line feed counts as a line of its own)
Lines(content) ==
    LET nl == {i \in 1..Len(content) : content[i] = NEWLINE}
        n == Cardinality(nl)
        pos(k) == CHOOSE i \in nl : Cardinality({j \in nl : j < i}) = k - 1
        start(k) == IF k = 1 THEN 1 ELSE pos(k - 1) + 1
        last == IF n = 0 THEN 0 ELSE pos(n)
        whole == [k \in 1..n |-> SubSeq(content, start(k), pos(k) - 1)]
    IN IF last < Len(content)
       THEN Append(whole, SubSeq(content, last + 1, Len(content)))
       ELSE whole

-----------------------------------------------------------------------------
(* The JSONL cell: one file per dataset split *)

project_name == "chart-qa-v4"
splits == <<"train", "val", "test">>

SYSTEM_PROMPT ==
    <<"You are a Vision Language Model specialized in interpreting visual data from chart images.",
      NEWLINE,
      "Your task is to analyze the provided chart image and respond to queries with concise answers, usually a single word, number, or short phrase.",
      NEWLINE,
      "The charts include a variety of types (e.g., line charts, bar charts) and contain colors, labels, and text.",
      NEWLINE,
      "Focus on delivering accurate, succinct answers based on the visual information. Avoid additional explanation unless absolutely necessary.">>

base64_prefix == "data:image/jpeg;base64,"

\* the quality the JSONL cell passes to encode_image
WriterQuality == 80

\* f"{project_name}-{split}.jsonl"
DatasetFile(split) == <<project_name, "-", split, ".jsonl">>

FileNames == {DatasetFile(splits[k]) : k \in 1..Len(splits)}

NoFile == [exists |-> FALSE, content |-> <<>>]

\* the rows a split may hold: question and answer are a str or None, image
\* is an image or None
SampleRows ==
    { [question |-> PyStr(<<"a", NEWLINE, QUOTE>>), answer |-> PyStr(<<"b">>),
       image |-> [mode |-> "RGB", px |-> <<120>>, alpha |-> 255, fault |-> "none"]],
      [question |-> PyStr(<<BACKSLASH, "n", EACUTE>>), answer |-> PyStr(<<QUOTE, ", ">>),
       image |-> [mode |-> "RGBA", px |-> <<7, 200>>, alpha |-> 128, fault |-> "none"]],
      [question |-> PyStr(<<"c">>), answer |-> PyNone,
       image |-> [mode |-> "L", px |-> <<64, 65, 255, 0>>, alpha |-> 255, fault |-> "none"]],
      [question |-> PyStr(<<"d">>), answer |-> PyStr(<<"e">>), image |-> NoImage],
      [question |-> PyStr(<<"f">>), answer |-> PyStr(<<"g">>),
       image |-> [mode |-> "RGB", px |-> <<1>>, alpha |-> 255, fault |-> "KeyError"]] }

SeqsUpTo(S, n) == UNION {[1..k -> S] : k \in 0..n}

system_message == PyDict(<< <<(<<"role">>), PyStr(<<"system">>)>>,
                            <<(<<"content">>), PyStr(SYSTEM_PROMPT)>> >>)

\* f"Question [{idx}]: {example.question}"
QuestionText(i, example) ==
    <<"Question [">> \o Digits(i) \o <<"]: ">> \o FormatValue(example.question)

user_message(i, example) ==
    PyDict(<< <<(<<"role">>), PyStr(<<"user">>)>>,
              <<(<<"content">>),
                PyList(<< PyDict(<< <<(<<"type">>), PyStr(<<"text">>)>>,
                                    <<(<<"text">>), PyStr(QuestionText(i, example))>> >>),
                          PyDict(<< <<(<<"type">>), PyStr(<<"image_url">>)>>,
                                    <<(<<"image_url">>),
                                      PyDict(<< <<(<<"url">>),
                                                  PyStr(<<base64_prefix>>
                                                        \o encode_image(example.image, WriterQuality))>> >>)>> >>) >>)>> >>)

assistant_message(example) ==
    PyDict(<< <<(<<"role">>), PyStr(<<"assistant">>)>>,
              <<(<<"content">>), example.answer>> >>)

\* TrainingRecord with the assistant turn placed before the user turn
TrainingRecordReordered(i, example) ==
    PyDict(<< <<(<<"messages">>),
                PyList(<<system_message, assistant_message(example),
                         user_message(i, example)>>)>> >>)

\* the record the try block appends for row i
TrainingRecord(i, example) ==
    PyDict(<< <<(<<"messages">>),
                PyList(<<system_message, user_message(i, example),
                         assistant_message(example)>>)>> >>)

\* RowRecords when a record carries its position in the output file
RowRecordsOutputPosition(records, i, example) ==
    IF EncodeError(example.image) = "none"
    THEN Append(records, TrainingRecord(Len(records), example))
    ELSE records

\* RowRecords when a failed row's record is collected all the same
RowRecordsNoSkip(records, i, example) == Append(records, TrainingRecord(i, example))

\* json_data after the try statement for row i: the record is appended
\* unless building it raised
RowRecords(records, i, example) ==
    IF EncodeError(example.image) = "none"
    THEN Append(records, TrainingRecord(i, example))
    ELSE records

\* what the except clauses print
LogLine(i, error) ==
    IF error = "KeyError" THEN [msg |-> "Missing field in example", idx |-> i, error |-> error]
    ELSE [msg |-> "Error processing example", idx |-> i, error |-> error]

\* json.dump(message, f); f.write("\n") for every collected record
FileContent(records) ==
    Concat([k \in 1..Len(records) |-> JsonDump(records[k]) \o <<NEWLINE>>])

InitWriter ==
    /\ \E a \in SeqsUpTo(SampleRows, MaxRows) :
         \E b \in SeqsUpTo(SampleRows, MaxRows - Len(a)) :
           \E c \in SeqsUpTo(SampleRows, MaxRows - Len(a) - Len(b)) :
             datasets = <<a, b, c>>
    /\ wpc = "split"
    /\ split_i = 1
    /\ idx = 0
    /\ json_data = <<>>
    /\ files = [f \in FileNames |-> NoFile]
    /\ log = <<>>
    /\ EvalIdle
    /\ PipelineIdle
    /\ deployments = {}
    /\ TablesIdle

\* for split, dataset in zip(splits, datasets): the loop's head
StartSplit ==
    /\ wpc = "split"
    /\ split_i <= Len(splits)
    /\ json_data' = <<>>
    /\ idx' = 0
    /\ wpc' = "rows"
    /\ UNCHANGED <<datasets, split_i, files, log>>
    /\ UNCHANGED evalVars
    /\ UNCHANGED pipelineVars

\* one iteration of the loop over the split's rows
ProcessRow ==
    /\ wpc = "rows"
    /\ idx < Len(datasets[split_i])
    /\ LET example == datasets[split_i][idx + 1]
           error == EncodeError(example.image)
       IN /\ json_data' = RowRecords(json_data, idx, example)
          /\ log' = IF error = "none" THEN log ELSE Append(log, LogLine(idx, error))
    /\ idx' = idx + 1
    /\ UNCHANGED <<datasets, wpc, split_i, files>>
    /\ UNCHANGED evalVars
    /\ UNCHANGED pipelineVars

\* WriteFile when the file is opened for appending
WriteFileAppending ==
    /\ wpc = "rows"
    /\ idx = Len(datasets[split_i])
    /\ files' = [files EXCEPT ![DatasetFile(splits[split_i])] =
                     [exists |-> TRUE, content |-> @.content \o FileContent(json_data)]]
    /\ split_i' = split_i + 1
    /\ wpc' = IF split_i = Len(splits) THEN "done" ELSE "split"
    /\ UNCHANGED <<datasets, idx, json_data, log>>
    /\ UNCHANGED evalVars
    /\ UNCHANGED pipelineVars

\* with open(dataset_file, "w") as f: ... after the split's last row
WriteFile ==
    /\ wpc = "rows"
    /\ idx = Len(datasets[split_i])
    /\ files' = [files EXCEPT ![DatasetFile(splits[split_i])] =
                     [exists |-> TRUE, content |-> FileContent(json_data)]]
    /\ split_i' = split_i + 1
    /\ wpc' = IF split_i = Len(splits) THEN "done" ELSE "split"
    /\ UNCHANGED <<datasets, idx, json_data, log>>
    /\ UNCHANGED evalVars
    /\ UNCHANGED pipelineVars

NextWriter == StartSplit \/ ProcessRow \/ WriteFile

SpecWriter == InitWriter /\ [][NextWriter]_vars

-----------------------------------------------------------------------------
(* Reading a written file back *)

\* dict[key] of a parsed object
Get(d, key) ==
    LET k == CHOOSE k \in 1..Len(d.kvs) : d.kvs[k][1] = <<key>>
    IN d.kvs[k][2]

HasKey(d, key) == d.t = "dict" /\ \E k \in 1..Len(d.kvs) : d.kvs[k][1] = <<key>>

\* the keys of a parsed object, in the order they stand in the line
Keys(d) == [k \in 1..Len(d.kvs) |-> d.kvs[k][1][1]]

Written(k) == files[DatasetFile(splits[k])].exists

FileLines(k) == Lines(files[DatasetFile(splits[k])].content)

\* the fields of a line that has the training-record shape
LineText(line) ==
    Get(Get(Get(JsonLoads(line).v, "messages").xs[2], "content").xs[1], "text").s
LineUrl(line) ==
    Get(Get(Get(Get(JsonLoads(line).v, "messages").xs[2], "content").xs[2],
            "image_url"), "url").s
LineAnswer(line) == Get(Get(JsonLoads(line).v, "messages").xs[3], "content")

DigitSet == {DigitGlyphs[d] : d \in 1..10}

\* the index of the first glyph after "Question [" that is no digit
PrefixEnd(text) == CHOOSE j \in 2..Len(text) :
                      /\ text[j] \notin DigitSet
                      /\ \A m \in 2..(j - 1) : text[m] \in DigitSet

HasQuestionPrefix(text) ==
    /\ Len(text) >= 3
    /\ text[1] = "Question ["
    /\ \E j \in 3..Len(text) : text[j] \notin DigitSet
    /\ PrefixEnd(text) >= 3
    /\ text[PrefixEnd(text)] = "]: "

\* the question and the index read back from a record's user text
RecoveredQuestion(text) == SubSeq(text, PrefixEnd(text) + 1, Len(text))
RecoveredIndex(text) == SubSeq(text, 2, PrefixEnd(text) - 1)

\* the image bytes and the image read back from a record's URL
RecoveredBytes(url) == b64decode(Tail(url))
RecoveredImage(url) == JpegOpen(RecoveredBytes(url), WriterQuality)

\* a line is a training record: one object "messages" of the three turns
\* system, user, assistant, every key in the order the cell builds it
RecordShape(line) ==
    LET p == JsonLoads(line)
    IN /\ p.ok
       /\ p.v.t = "dict"
       /\ Keys(p.v) = <<"messages">>
       /\ LET ms == Get(p.v, "messages")
          IN /\ ms.t = "list"
             /\ Len(ms.xs) = 3
             /\ \A m \in 1..3 : ms.xs[m].t = "dict" /\ Keys(ms.xs[m]) = <<"role", "content">>
             /\ [m \in 1..3 |-> Get(ms.xs[m], "role")]
                  = <<PyStr(<<"system">>), PyStr(<<"user">>), PyStr(<<"assistant">>)>>
             /\ Get(ms.xs[1], "content") = PyStr(SYSTEM_PROMPT)
             /\ LET parts == Get(ms.xs[2], "content")
                IN /\ parts.t = "list"
                   /\ Len(parts.xs) = 2
                   /\ parts.xs[1].t = "dict"
                   /\ Keys(parts.xs[1]) = <<"type", "text">>
                   /\ Get(parts.xs[1], "type") = PyStr(<<"text">>)
                   /\ Get(parts.xs[1], "text").t = "str"
                   /\ parts.xs[2].t = "dict"
                   /\ Keys(parts.xs[2]) = <<"type", "image_url">>
                   /\ Get(parts.xs[2], "type") = PyStr(<<"image_url">>)
                   /\ LET iu == Get(parts.xs[2], "image_url")
                      IN /\ iu.t = "dict"
                         /\ Keys(iu) = <<"url">>
                         /\ Get(iu, "url").t = "str"
                         /\ Len(Get(iu, "url").s) >= 1
                         /\ Get(iu, "url").s[1] = base64_prefix

WellFormed(row) ==
    /\ row.question.t = "str"
    /\ row.answer.t = "str"
    /\ row.image # NoImage
    /\ row.image.fault = "none"

RECURSIVE SurvivorsFrom(_, _)
\* the zero-based positions of the rows of a split whose processing does
\* not raise, ascending, from position i on
SurvivorsFrom(dataset, i) ==
    IF i >= Len(dataset) THEN <<>>
    ELSE (IF EncodeError(dataset[i + 1].image) = "none" THEN <<i>> ELSE <<>>)
         \o SurvivorsFrom(dataset, i + 1)

Survivors(dataset) == SurvivorsFrom(dataset, 0)

-----------------------------------------------------------------------------
(* Claims about the JSONL cell (checked under SpecWriter) *)

\* C4 (as amended): for a split whose rows all have a well-formed question,
\* answer and image, the written file has one line per row; line i is a valid
\* JSON training record whose user text is "Question [i-1]: " followed by
\* the row's question, whose assistant content is the row's answer, and
\* whose URL is the data-URL prefix followed by a base64 payload that
\* decodes to the JPEG bytes (RGB, quality 80) of the row's image.
C4_RoundTrip ==
    \A k \in 1..Len(splits) :
      (Written(k) /\ \A r \in 1..Len(datasets[k]) : WellFormed(datasets[k][r])) =>
        /\ Len(FileLines(k)) = Len(datasets[k])
        /\ \A i \in 1..Len(datasets[k]) :
             LET line == FileLines(k)[i]
                 row == datasets[k][i]
             IN /\ RecordShape(line)
                /\ HasQuestionPrefix(LineText(line))
                /\ RecoveredIndex(LineText(line)) = Digits(i - 1)
                /\ RecoveredQuestion(LineText(line)) = row.question.s
                /\ LineAnswer(line) = row.answer
                /\ RecoveredBytes(LineUrl(line))
                     = JpegSave(ConvertRGB(row.image), WriterQuality)

\* C4 witness: the train file was written from two well-formed rows, one of
\* them the RGBA image whose question holds a backslash
C4_Witness ==
    /\ Written(1)
    /\ Len(datasets[1]) = 2
    /\ \A r \in 1..2 : WellFormed(datasets[1][r])
    /\ \E r \in 1..2 : datasets[1][r].image.mode = "RGBA"
    /\ \E r \in 1..2 : NEWLINE \in {datasets[1][r].question.s[g] :
                                      g \in 1..Len(datasets[1][r].question.s)}

\* C4 as stated: parsing line i back yields the original question, answer
\* and image of row i.
C4_Original ==
    \A k \in 1..Len(splits) :
      (Written(k) /\ \A r \in 1..Len(datasets[k]) : WellFormed(datasets[k][r])) =>
        /\ Len(FileLines(k)) = Len(datasets[k])
        /\ \A i \in 1..Len(datasets[k]) :
             LET line == FileLines(k)[i]
                 row == datasets[k][i]
             IN /\ RecordShape(line)
                /\ HasQuestionPrefix(LineText(line))
                /\ RecoveredQuestion(LineText(line)) = row.question.s
                /\ LineAnswer(line) = row.answer
                /\ RecoveredImage(LineUrl(line)) = row.image

\* C5: a row whose processing raises is logged and skipped and the loop goes
\* on: a written file holds exactly one line per row that did not fail, in
\* the order of the input rows, and no line of a failed row; every failed
\* row processed so far has its line in the log.
C5_SkipAndContinue ==
    /\ \A k \in 1..Len(splits) :
         Written(k) =>
           LET alive == Survivors(datasets[k])
           IN /\ Len(FileLines(k)) = Len(alive)
              /\ \A j \in 1..Len(alive) :
                   LET line == FileLines(k)[j]
                       row == datasets[k][alive[j] + 1]
                   IN /\ RecordShape(line)
                      /\ HasQuestionPrefix(LineText(line))
                      /\ RecoveredIndex(LineText(line)) = Digits(alive[j])
                      /\ RecoveredQuestion(LineText(line)) = FormatValue(row.question)
                      /\ LineAnswer(line) = row.answer
    /\ LET failed(k, upto) == {i \in 0..(upto - 1) :
                                  EncodeError(datasets[k][i + 1].image) # "none"}
           seen(k) == IF k < split_i THEN Len(datasets[k])
                      ELSE IF k = split_i /\ wpc = "rows" THEN idx ELSE 0
           total == Cardinality(failed(1, seen(1))) + Cardinality(failed(2, seen(2)))
                    + Cardinality(failed(3, seen(3)))
       IN /\ Len(log) = total
          /\ wpc = "rows" =>
               \A i \in failed(split_i, idx) : \E m \in 1..Len(log) : log[m].idx = i
    /\ (wpc = "rows" /\ idx < Len(datasets[split_i])) => ENABLED ProcessRow

\* C5 witness: a file was written for a split whose first row failed and
\* whose second row did not
C5_Witness ==
    \E k \in 1..Len(splits) :
      /\ Written(k)
      /\ Len(datasets[k]) = 2
      /\ EncodeError(datasets[k][1].image) # "none"
      /\ EncodeError(datasets[k][2].image) = "none"
      /\ Len(FileLines(k)) = 1
      /\ Len(log) >= 1

\* C8: every written line has the fixed shape and key order: one top-level
\* "messages" list of exactly the three messages system, user, assistant,
\* each with "role" before "content"; the user content is the text part
\* and then the image part, whose URL is the data-URL prefix followed by the
\* base64 payload of the row's image.
C8_FixedShape ==
    \A k \in 1..Len(splits) :
      Written(k) =>
        \A j \in 1..Len(FileLines(k)) :
          /\ RecordShape(FileLines(k)[j])
          /\ j <= Len(Survivors(datasets[k]))
          /\ Tail(LineUrl(FileLines(k)[j]))
               = encode_image(datasets[k][Survivors(datasets[k])[j] + 1].image, WriterQuality)

\* C8 witness: a written file with two records
C8_Witness ==
    \E k \in 1..Len(splits) : Written(k) /\ Len(FileLines(k)) = 2

-----------------------------------------------------------------------------
(* The retry decorator: @retry(stop=stop_after_attempt(3), wait=wait_fixed(10)) *)

\* stop_after_attempt(3) and wait_fixed(10) on query_image
QueryImageAttempts == 3
QueryImageWait == 10
\* stop_after_attempt(3) and wait_fixed(10) on evaluate
EvaluateAttempts == 3
EvaluateWait == 10

StopAfterAttempt(fn) == IF fn = "query_image" THEN QueryImageAttempts ELSE EvaluateAttempts
WaitFixed(fn) == IF fn = "query_image" THEN QueryImageWait ELSE EvaluateWait

\* the exceptions a call of the OpenAI client raises whatever the request
\* (subclasses of Exception)
RemoteErrors == {"APIConnectionError", "RateLimitError"}

\* RetryOn for a decorator that retries connection errors only
RetryOnConnectionOnly(error) == error = "APIConnectionError"

\* the decorator names no retry= condition: every Exception is retried
RetryOn(error) == TRUE

\* stop_after_attempt: stop once this many attempts were made
RetryStop(fn, attempt) == attempt >= StopAfterAttempt(fn)

\* tenacity with reraise=True: the last attempt's own exception is raised
RetryErrorReraised(error) == [type |-> error, wraps |-> "none"]
\* the decorator names no reraise=True: giving up raises RetryError, which
\* holds the last attempt
RetryError(error) == [type |-> "RetryError", wraps |-> error]

\* what the wrapper did in one wrapped call: an attempt (the function body
\* ran and raised at its local step, or reached the remote call, which
\* answered or raised) or a sleep
CallEvent(attempt, at, outcome, value) ==
    [kind |-> "call", attempt |-> attempt, at |-> at, outcome |-> outcome,
     value |-> value, seconds |-> 0]
SleepEvent(seconds) ==
    [kind |-> "sleep", attempt |-> 0, at |-> "none", outcome |-> "none",
     value |-> "none", seconds |-> seconds]

\* a chat completion response
Response(content) == [choices |-> <<[message |-> [content |-> content]]>>]

\* ResponseContent of a function that ends without its return statement
ResponseContentDropped(response) == "None"

\* return response.choices[0].message.content
ResponseContent(response) == response.choices[1].message.content

-----------------------------------------------------------------------------
(* The evaluation cells *)

\* ds_test.copy().head(100)
HeadRows == 100

\* the cells in the order they run, the function each calls through the
\* retry wrapper, the deployment it names and the column it sets
EvalCells == <<"test_query", "base_pred", "ft_pred", "test_evaluate", "base_eval", "ft_eval">>

\* aoai_deployment_name = project_name
aoai_deployment_name == project_name

CellFn(c) == IF c \in {"test_query", "base_pred", "ft_pred"} THEN "query_image" ELSE "evaluate"
CellDeployment(c) ==
    CASE c = "test_query" -> aoai_deployment_name
      [] c = "ft_pred" -> "chart-qa-v4"
      [] OTHER -> "gpt-4o"
CellColumn(c) ==
    CASE c = "base_pred" -> "gpt-4o-base-pred"
      [] c = "ft_pred" -> "gpt-4o-ft-pred"
      [] c = "base_eval" -> "gpt-4o-base-eval"
      [] c = "ft_eval" -> "gpt-4o-ft-eval"
      [] OTHER -> "none"
\* CellReads with the two prediction columns exchanged
CellReadsSwapped(c) ==
    CASE c = "base_eval" -> "gpt-4o-ft-pred"
      [] c = "ft_eval" -> "gpt-4o-base-pred"
      [] OTHER -> "none"
\* the prediction column an evaluate cell reads
CellReads(c) ==
    CASE c = "base_eval" -> "gpt-4o-base-pred"
      [] c = "ft_eval" -> "gpt-4o-ft-pred"
      [] OTHER -> "none"
IsApply(c) == c \in {"base_pred", "ft_pred", "base_eval", "ft_eval"}
CellAfter(c) ==
    CASE c = "test_query" -> "table"
      [] c = "base_pred" -> "ft_pred"
      [] c = "ft_pred" -> "test_evaluate"
      [] c = "test_evaluate" -> "base_eval"
      [] c = "base_eval" -> "ft_eval"
      [] c = "ft_eval" -> "chart"
      [] OTHER -> "done"

\* what the completion endpoint may answer to query_image and to evaluate
Predictions == {"42", "forty-two"}
Verdicts == {"CORRECT", "INCORRECT", "CORRECT."}
Answers(fn) == IF fn = "query_image" THEN Predictions ELSE Verdicts

\* the rows the test split may hold: one whose image encodes, one without
\* an image
EvalSampleRows == {r \in SampleRows : r.answer = PyStr(<<"b">>) \/ r.image = NoImage}

\* the quality query_image passes to encode_image
QueryQuality == 50

NRows == Len(ds_test_eval.rows)

\* the row whose fields the cell passes: ds_test.iloc[0] for the test query,
\* apply's current row otherwise
CallRow == IF epc = "test_query" THEN ds_test[1] ELSE ds_test_eval.rows[row_i]

\* a request to the service: the chat completion of a wrapped function, or
\* the call of one of the other cells
Request(fn, deployment, row, image_url, predicted, attempt) ==
    [fn |-> fn, deployment |-> deployment, row |-> row, image_url |-> image_url,
     predicted |-> predicted, attempt |-> attempt]

\* the wrapped call being made: the arguments the cell passes
CurrentCall ==
    CASE epc = "test_evaluate" ->
           Request("evaluate", "gpt-4o", 0, <<>>,
                   "Tax Rate Comparison Across US States", attempt_number)
      [] CellFn(epc) = "evaluate" ->
           Request("evaluate", CellDeployment(epc), row_i, <<>>,
                   ds_test_eval.cols[CellReads(epc)].vals[row_i], attempt_number)
      [] OTHER ->
           Request("query_image", CellDeployment(epc),
                   IF epc = "test_query" THEN 1 ELSE row_i,
                   <<base64_prefix>> \o encode_image(CallRow.image, QueryQuality),
                   "none", attempt_number)

\* the exception the function body raises before it reaches the remote call
LocalError ==
    IF CellFn(epc) = "query_image"
    THEN EncodeError(CallRow.image)
    ELSE "none"

\* the service knows the deployment a request names: the base deployment
\* the notebook presupposes, or a fine-tuned one that was created
Deployed(deployment) == deployment = "gpt-4o" \/ deployment \in deployments

\* what the chat completion call may raise for the request
CompletionErrors(request) ==
    IF Deployed(request.deployment) THEN RemoteErrors
    ELSE RemoteErrors \cup {"NotFoundError"}

InitEval ==
    /\ WriterIdle
    /\ files = [f \in FileNames |-> NoFile]
    /\ PipelineIdle
    /\ deployments \in {{}, {project_name}}
    /\ TablesIdle
    /\ ds_test \in SeqsUpTo(EvalSampleRows, MaxEvalRows)
    /\ ds_test_eval = NoTable
    /\ epc = "table"
    /\ row_i = 1
    /\ partial = <<>>
    /\ rstate = "idle"
    /\ attempt_number = 0
    /\ events = <<>>
    /\ inflight = {}
    /\ returned = "none"
    /\ raised = NoException
    /\ chart_data = NoChart

\* ds_test_eval = ds_test.copy().head(100)
MakeEvalTable ==
    /\ epc = "table"
    /\ ds_test_eval' = [rows |-> SubSeq(ds_test, 1, Min(Len(ds_test), HeadRows)),
                        cols |-> [c \in ColumnNames |-> NoColumn]]
    /\ epc' = "base_pred"
    /\ row_i' = 1
    /\ partial' = <<>>
    /\ UNCHANGED <<ds_test, rstate, attempt_number, events, inflight, returned, raised,
                   chart_data>>
    /\ UNCHANGED writerVars
    /\ UNCHANGED pipelineVars

\* Invoke of a wrapper whose attempt counter is shared by all calls
InvokeSharedBudget ==
    /\ \/ IsApply(epc) /\ row_i <= NRows
       \/ epc \in {"test_query", "test_evaluate"}
    /\ rstate = "idle"
    /\ attempt_number' = IF attempt_number = 0 THEN 1 ELSE attempt_number
    /\ events' = <<>>
    /\ returned' = "none"
    /\ rstate' = "attempt"
    /\ UNCHANGED <<ds_test, ds_test_eval, epc, row_i, partial, inflight, raised, chart_data>>
    /\ UNCHANGED writerVars
    /\ UNCHANGED pipelineVars

\* the wrapped function is called for the next row (or by the test cell):
\* the wrapper starts its first attempt
Invoke ==
    /\ \/ IsApply(epc) /\ row_i <= NRows
       \/ epc \in {"test_query", "test_evaluate"}
    /\ rstate = "idle"
    /\ attempt_number' = 1
    /\ events' = <<>>
    /\ returned' = "none"
    /\ rstate' = "attempt"
    /\ UNCHANGED <<ds_test, ds_test_eval, epc, row_i, partial, inflight, raised, chart_data>>
    /\ UNCHANGED writerVars
    /\ UNCHANGED pipelineVars

\* AttemptFailed of a wrapper that reports RetryError and lets the cell go on
AttemptFailedContinuing(at, error) ==
    LET fn == CellFn(epc)
        ev == Append(events, CallEvent(attempt_number, at, "error", error))
    IN IF RetryStop(fn, attempt_number)
       THEN /\ raised' = RetryError(error)
            /\ epc' = epc
            /\ rstate' = "idle"
            /\ events' = ev
       ELSE /\ raised' = raised
            /\ epc' = epc
            /\ rstate' = "sleep"
            /\ events' = Append(ev, SleepEvent(WaitFixed(fn)))

\* the wrapper after an attempt raised error: re-raise what is not retried,
\* give up with RetryError once the stop condition holds, sleep otherwise
AttemptFailed(at, error) ==
    LET fn == CellFn(epc)
        ev == Append(events, CallEvent(attempt_number, at, "error", error))
    IN IF ~RetryOn(error)
       THEN /\ raised' = Exc(error)
            /\ epc' = "failed"
            /\ rstate' = "idle"
            /\ events' = ev
       ELSE IF RetryStop(fn, attempt_number)
       THEN /\ raised' = RetryError(error)
            /\ epc' = "failed"
            /\ rstate' = "idle"
            /\ events' = ev
       ELSE /\ raised' = raised
            /\ epc' = epc
            /\ rstate' = "sleep"
            /\ events' = Append(ev, SleepEvent(WaitFixed(fn)))

\* RunAttempt of a function whose encoding stands outside the retried body:
\* an encoding failure reaches the caller at once
RunAttemptEncodingOutside ==
    /\ rstate = "attempt"
    /\ IF LocalError # "none"
       THEN /\ raised' = Exc(LocalError)
            /\ epc' = "failed"
            /\ rstate' = "idle"
            /\ events' = Append(events, CallEvent(attempt_number, "local", "error", LocalError))
            /\ inflight' = inflight
       ELSE /\ inflight' = inflight \cup {CurrentCall}
            /\ rstate' = "waitremote"
            /\ UNCHANGED <<epc, raised, events>>
    /\ UNCHANGED <<ds_test, ds_test_eval, row_i, partial, attempt_number, returned,
                   chart_data>>
    /\ UNCHANGED writerVars
    /\ UNCHANGED pipelineVars

\* an attempt runs the function body up to its remote call: query_image
\* encodes the image first, which may raise
RunAttempt ==
    /\ rstate = "attempt"
    /\ IF LocalError # "none"
       THEN /\ AttemptFailed("local", LocalError)
            /\ inflight' = inflight
       ELSE /\ inflight' = inflight \cup {CurrentCall}
            /\ rstate' = "waitremote"
            /\ UNCHANGED <<epc, raised, events>>
    /\ UNCHANGED <<ds_test, ds_test_eval, row_i, partial, attempt_number, returned,
                   chart_data>>
    /\ UNCHANGED writerVars
    /\ UNCHANGED pipelineVars

\* the wrapped call returned value: it goes to apply's results, or is printed
Deliver(value) ==
    /\ returned' = value
    /\ IF ~IsApply(epc)
       THEN /\ epc' = CellAfter(epc)
            /\ UNCHANGED <<row_i, partial>>
       ELSE /\ partial' = Append(partial, value)
            /\ row_i' = row_i + 1
            /\ epc' = epc

\* the remote call answers; the function returns the content and the
\* wrapper hands it to the caller
RemoteReturns ==
    /\ rstate = "waitremote"
    /\ Deployed(CurrentCall.deployment)
    /\ \E content \in Answers(CellFn(epc)) :
         /\ events' = Append(events, CallEvent(attempt_number, "remote", "ok", content))
         /\ Deliver(ResponseContent(Response(content)))
    /\ inflight' = inflight \ {CurrentCall}
    /\ rstate' = "idle"
    /\ UNCHANGED <<ds_test, ds_test_eval, attempt_number, raised, chart_data>>
    /\ UNCHANGED writerVars
    /\ UNCHANGED pipelineVars

\* RemoteRaises when the failed request stays outstanding
RemoteRaisesLeaking ==
    /\ rstate = "waitremote"
    /\ \E error \in CompletionErrors(CurrentCall) : AttemptFailed("remote", error)
    /\ inflight' = inflight
    /\ UNCHANGED <<ds_test, ds_test_eval, row_i, partial, attempt_number, returned,
                   chart_data>>
    /\ UNCHANGED writerVars
    /\ UNCHANGED pipelineVars

\* the remote call raises
RemoteRaises ==
    /\ rstate = "waitremote"
    /\ \E error \in CompletionErrors(CurrentCall) : AttemptFailed("remote", error)
    /\ inflight' = inflight \ {CurrentCall}
    /\ UNCHANGED <<ds_test, ds_test_eval, row_i, partial, attempt_number, returned,
                   chart_data>>
    /\ UNCHANGED writerVars
    /\ UNCHANGED pipelineVars

\* the wait between two attempts is over: the next attempt starts
SleepDone ==
    /\ rstate = "sleep"
    /\ attempt_number' = attempt_number + 1
    /\ rstate' = "attempt"
    /\ UNCHANGED <<ds_test, ds_test_eval, epc, row_i, partial, events, inflight, returned,
                   raised, chart_data>>
    /\ UNCHANGED writerVars
    /\ UNCHANGED pipelineVars

\* apply is through the rows: ds_test_eval[column] = its result.  On a
\* table without rows apply returns an empty DataFrame, which pandas either
\* sets as an empty column or refuses with ValueError, depending on its
\* version.
AssignColumn ==
    /\ IsApply(epc)
    /\ row_i > NRows
    /\ rstate = "idle"
    /\ \/ /\ ds_test_eval' = [ds_test_eval EXCEPT
                                 !.cols[CellColumn(epc)] = [set |-> TRUE, vals |-> partial]]
          /\ epc' = CellAfter(epc)
          /\ raised' = raised
       \/ /\ NRows = 0
          /\ ds_test_eval' = ds_test_eval
          /\ epc' = "failed"
          /\ raised' = Exc("ValueError")
    /\ row_i' = 1
    /\ partial' = <<>>
    /\ UNCHANGED <<ds_test, rstate, attempt_number, events, inflight, returned, chart_data>>
    /\ UNCHANGED writerVars
    /\ UNCHANGED pipelineVars

-----------------------------------------------------------------------------
(* The accuracy cell *)

\* Series.value_counts(): the count of every value that occurs
ValueCounts(vals) ==
    [v \in {vals[i] : i \in 1..Len(vals)} |-> Cardinality({i \in 1..Len(vals) : vals[i] = v})]

\* .get(key, default) on the counts
GetOr(counts, key, default) == IF key \in DOMAIN counts THEN counts[key] ELSE default

\* CorrectCount that takes every verdict other than INCORRECT for correct
CorrectCountNotIncorrect(vals) == Len(vals) - GetOr(ValueCounts(vals), "INCORRECT", 0)

\* ds_test_eval[column].value_counts().get("CORRECT", 0)
CorrectCount(vals) == GetOr(ValueCounts(vals), "CORRECT", 0)

\* a / b: the quotient as a fraction, or the exception Python raises
TrueDivide(a, b) ==
    IF b = 0 THEN [error |-> "ZeroDivisionError", q |-> <<0, 1>>]
    ELSE [error |-> "none", q |-> <<a, b>>]

\* base_correct_count ... chart_data = {...}
Aggregate ==
    /\ epc = "chart"
    /\ LET base_correct_count == CorrectCount(ds_test_eval.cols["gpt-4o-base-eval"].vals)
           base_eval_observations == NRows
           ft_correct_count == CorrectCount(ds_test_eval.cols["gpt-4o-ft-eval"].vals)
           ft_eval_observations == NRows
           base == TrueDivide(base_correct_count, base_eval_observations)
           ft == TrueDivide(ft_correct_count, ft_eval_observations)
       IN IF base.error # "none"
          THEN /\ raised' = Exc(base.error)
               /\ epc' = "failed"
               /\ chart_data' = chart_data
          ELSE IF ft.error # "none"
          THEN /\ raised' = Exc(ft.error)
               /\ epc' = "failed"
               /\ chart_data' = chart_data
          ELSE /\ raised' = raised
               /\ epc' = "done"
               /\ chart_data' = [set |-> TRUE, baseline_accuracy |-> base.q,
                                 fine_tuned_accuracy |-> ft.q]
    /\ UNCHANGED <<ds_test, ds_test_eval, row_i, partial, rstate, attempt_number, events,
                   inflight, returned>>
    /\ UNCHANGED writerVars
    /\ UNCHANGED pipelineVars

NextEval ==
    \/ MakeEvalTable
    \/ Invoke
    \/ RunAttempt
    \/ RemoteReturns
    \/ RemoteRaises
    \/ SleepDone
    \/ AssignColumn
    \/ Aggregate

SpecEval == InitEval /\ [][NextEval]_vars

-----------------------------------------------------------------------------
(* The other cells that call the service, in the order the notebook runs   *)
(* them.  None of these calls is made through the retry wrapper.           *)

PipelineCells ==
    <<"connection_test", "upload_train", "upload_val", "create_job", "list_jobs_1",
      "list_jobs_5", "retrieve_job", "download_results", "list_models", "get_token",
      "deploy">>

\* the client function the cell calls
CellCall(c) ==
    CASE c = "connection_test" -> "chat.completions.create"
      [] c \in {"upload_train", "upload_val"} -> "files.create"
      [] c = "create_job" -> "fine_tuning.jobs.create"
      [] c \in {"list_jobs_1", "list_jobs_5"} -> "fine_tuning.jobs.list"
      [] c = "retrieve_job" -> "fine_tuning.jobs.retrieve"
      [] c = "download_results" -> "files.content"
      [] c = "list_models" -> "models.list"
      [] c = "get_token" -> "credential.get_token"
      [] c = "deploy" -> "requests.put"

PipelineCellAfter(c) ==
    IF c = "deploy" THEN "done"
    ELSE PipelineCells[(CHOOSE k \in 1..Len(PipelineCells) : PipelineCells[k] = c) + 1]

\* the request the cell sends
PipelineCall(c) ==
    Request(CellCall(c), IF c = "connection_test" THEN "gpt-4o" ELSE "none", 0, <<>>,
            "none", 1)

\* the file an upload cell opens
UploadName(c) == DatasetFile(IF c = "upload_train" THEN "train" ELSE "val")

\* PipelineLocalError of a download cell that takes no element of result_files
PipelineLocalErrorNoIndex(c) ==
    CASE c \in {"upload_train", "upload_val"} /\ ~files[UploadName(c)].exists
           -> "FileNotFoundError"
      [] OTHER -> "none"

\* the exception the cell's own statements raise before the request is
\* sent: open() of a file that was not written, [0] of an empty result_files
PipelineLocalError(c) ==
    CASE c \in {"upload_train", "upload_val"} /\ ~files[UploadName(c)].exists
           -> "FileNotFoundError"
      [] c = "download_results" /\ ft_job.job.result_files = <<>> -> "IndexError"
      [] OTHER -> "none"

\* what the cell's request may raise
PipelineErrors(c) ==
    CASE c = "retrieve_job" /\ jobs[HardCodedJob] = NoJob -> RemoteErrors \cup {"NotFoundError"}
      [] c = "get_token" -> {"ClientAuthenticationError"}
      [] c = "deploy" -> {"ConnectionError"}
      [] OTHER -> RemoteErrors

PipelineEvent(c, outcome, value) ==
    [cell |-> c, fn |-> CellCall(c), outcome |-> outcome, value |-> value]

\* the splits of the whole run: a training split with a row that encodes
\* and one that does not, a validation split of one row, a test split of
\* one row that encodes or of none
PipelineTrainSplit ==
    <<CHOOSE row \in SampleRows : row.image.mode = "RGB" /\ row.image.fault = "none",
      CHOOSE row \in SampleRows : row.image = NoImage>>
PipelineValSplit == <<CHOOSE row \in SampleRows : row.image.mode = "RGBA">>
PipelineTestSplits ==
    {<<>>, <<CHOOSE row \in EvalSampleRows : row.image.fault = "none">>}

\* the job the retrieve cell names is one of an earlier run: the service
\* may hold it in any status, or not at all
JobStatuses == {"pending", "running", "succeeded", "failed"}

Init ==
    /\ \E ds \in PipelineTestSplits :
         /\ datasets = <<PipelineTrainSplit, PipelineValSplit, ds>>
         /\ ds_test = ds
    /\ wpc = "idle"
    /\ split_i = 1
    /\ idx = 0
    /\ json_data = <<>>
    /\ files = [f \in FileNames |-> NoFile]
    /\ log = <<>>
    /\ ds_test_eval = NoTable
    /\ epc = "idle"
    /\ row_i = 1
    /\ partial = <<>>
    /\ rstate = "idle"
    /\ attempt_number = 0
    /\ events = <<>>
    /\ inflight = {}
    /\ returned = "none"
    /\ raised = NoException
    /\ chart_data = NoChart
    /\ ppc = "connection_test"
    /\ pcalls = <<>>
    /\ remote_files = <<>>
    /\ \E old \in {NoJob} \cup {Job(st, 0, 0) : st \in JobStatuses} :
         jobs = [id \in JobIds |-> IF id = HardCodedJob THEN old ELSE NoJob]
    /\ deployments = {}
    /\ train_file = 0
    /\ val_file = 0
    /\ ft_job = NoSnapshot
    /\ fine_tuned_model = "None"
    /\ r_response = NoResponse
    /\ TablesIdle

\* what the cells of this section leave alone
PipelineFrame ==
    /\ UNCHANGED <<datasets, split_i, idx, json_data, files, log>>
    /\ UNCHANGED <<ds_test, ds_test_eval, row_i, partial, rstate, attempt_number, events,
                   returned, chart_data>>
    /\ UNCHANGED <<tpc, results_df, figure, details_dict, sorted_df>>

\* the cell runs up to its remote call: a statement before the call may
\* raise, which ends the run; otherwise the request goes out.  The upload
\* cell runs once the conversion cell is through.
SendRequest ==
    /\ ppc \in {PipelineCells[k] : k \in 1..Len(PipelineCells)}
    /\ ppc = "upload_train" => wpc = "done"
    /\ inflight = {}
    /\ IF PipelineLocalError(ppc) # "none"
       THEN /\ raised' = Exc(PipelineLocalError(ppc))
            /\ ppc' = "failed"
            /\ inflight' = inflight
       ELSE /\ inflight' = {PipelineCall(ppc)}
            /\ UNCHANGED <<raised, ppc>>
    /\ UNCHANGED <<pcalls, remote_files, jobs, deployments, train_file, val_file, ft_job,
                   fine_tuned_model, r_response, wpc, epc>>
    /\ PipelineFrame

\* RequestFails of a cell that sends its failed request again
RequestFailsResent ==
    /\ ppc \in {PipelineCells[k] : k \in 1..Len(PipelineCells)}
    /\ inflight = {PipelineCall(ppc)}
    /\ Len(pcalls) < 2 * Len(PipelineCells)
    /\ \E error \in PipelineErrors(ppc) :
         pcalls' = Append(pcalls, PipelineEvent(ppc, "error", error))
    /\ inflight' = {}
    /\ UNCHANGED <<raised, ppc>>
    /\ UNCHANGED <<remote_files, jobs, deployments, train_file, val_file, ft_job,
                   fine_tuned_model, r_response, wpc, epc>>
    /\ PipelineFrame

\* the request raises: nothing catches the exception, the run ends with it
RequestFails ==
    /\ ppc \in {PipelineCells[k] : k \in 1..Len(PipelineCells)}
    /\ inflight = {PipelineCall(ppc)}
    /\ \E error \in PipelineErrors(ppc) :
         /\ pcalls' = Append(pcalls, PipelineEvent(ppc, "error", error))
         /\ raised' = Exc(error)
    /\ ppc' = "failed"
    /\ inflight' = {}
    /\ UNCHANGED <<remote_files, jobs, deployments, train_file, val_file, ft_job,
                   fine_tuned_model, r_response, wpc, epc>>
    /\ PipelineFrame

\* the request of cell c was answered with value: the next cell is due
Answered(c, value) ==
    /\ ppc = c
    /\ inflight = {PipelineCall(c)}
    /\ pcalls' = Append(pcalls, PipelineEvent(c, "ok", value))
    /\ ppc' = PipelineCellAfter(c)
    /\ inflight' = {}
    /\ raised' = raised
    /\ PipelineFrame

\* completion = client.chat.completions.create(...); print(...): the
\* conversion cell is next
ConnectionTestReturns ==
    /\ Answered("connection_test", "hello")
    /\ wpc' = "split"
    /\ UNCHANGED <<remote_files, jobs, deployments, train_file, val_file, ft_job,
                   fine_tuned_model, r_response, epc>>

\* train_file = client.files.create(...) and val_file = client.files.create(...)
UploadReturns ==
    /\ \E c \in {"upload_train", "upload_val"} :
         /\ Answered(c, Len(remote_files) + 1)
         /\ remote_files' = Append(remote_files,
                                   [name |-> UploadName(c),
                                    content |-> files[UploadName(c)].content])
         /\ train_file' = IF c = "upload_train" THEN Len(remote_files) + 1 ELSE train_file
         /\ val_file' = IF c = "upload_val" THEN Len(remote_files) + 1 ELSE val_file
    /\ UNCHANGED <<jobs, deployments, ft_job, fine_tuned_model, r_response, wpc, epc>>

\* CreateJobReturns of a cell that passes the two identifiers exchanged
CreateJobReturnsExchanged ==
    /\ Answered("create_job", NewJob)
    /\ jobs' = [jobs EXCEPT ![NewJob] = Job("pending", val_file, train_file)]
    /\ ft_job' = [id |-> NewJob, job |-> Job("pending", val_file, train_file)]
    /\ UNCHANGED <<remote_files, deployments, train_file, val_file, fine_tuned_model,
                   r_response, wpc, epc>>

\* ft_job = client.fine_tuning.jobs.create(training_file=file_train,
\* validation_file=file_val, ...)
CreateJobReturns ==
    /\ Answered("create_job", NewJob)
    /\ jobs' = [jobs EXCEPT ![NewJob] = Job("pending", train_file, val_file)]
    /\ ft_job' = [id |-> NewJob, job |-> Job("pending", train_file, val_file)]
    /\ UNCHANGED <<remote_files, deployments, train_file, val_file, fine_tuned_model,
                   r_response, wpc, epc>>

\* client.fine_tuning.jobs.list(limit=1) and (limit=5): the listing is shown
ListJobsReturns ==
    /\ \E c \in {"list_jobs_1", "list_jobs_5"} :
         Answered(c, {id \in JobIds : jobs[id] # NoJob})
    /\ UNCHANGED <<remote_files, jobs, deployments, train_file, val_file, ft_job,
                   fine_tuned_model, r_response, wpc, epc>>

\* RetrieveJobReturns of a retrieve that cancels the job it reads
RetrieveJobReturnsCancelling ==
    /\ jobs[HardCodedJob] # NoJob
    /\ Answered("retrieve_job", jobs[HardCodedJob].status)
    /\ ft_job' = [id |-> HardCodedJob, job |-> jobs[HardCodedJob]]
    /\ fine_tuned_model' = jobs[HardCodedJob].fine_tuned_model
    /\ jobs' = [jobs EXCEPT ![HardCodedJob] = Job("failed", @.training_file, @.validation_file)]
    /\ UNCHANGED <<remote_files, deployments, train_file, val_file, r_response, wpc, epc>>

\* ft_job = client.fine_tuning.jobs.retrieve("ftjob-0a4c...");
\* fine_tuned_model = ft_job.to_dict()['fine_tuned_model']
RetrieveJobReturns ==
    /\ jobs[HardCodedJob] # NoJob
    /\ Answered("retrieve_job", jobs[HardCodedJob].status)
    /\ ft_job' = [id |-> HardCodedJob, job |-> jobs[HardCodedJob]]
    /\ fine_tuned_model' = jobs[HardCodedJob].fine_tuned_model
    /\ UNCHANGED <<remote_files, jobs, deployments, train_file, val_file, r_response,
                   wpc, epc>>

\* results_content = client.files.content(result_file_id).content.decode()
DownloadResultsReturns ==
    /\ Answered("download_results", ft_job.job.result_files)
    /\ UNCHANGED <<remote_files, jobs, deployments, train_file, val_file, ft_job,
                   fine_tuned_model, r_response, wpc, epc>>

\* my_models = client.models.list().to_dict()
ListModelsReturns ==
    /\ Answered("list_models", "models")
    /\ UNCHANGED <<remote_files, jobs, deployments, train_file, val_file, ft_job,
                   fine_tuned_model, r_response, wpc, epc>>

\* token = credential.get_token(...).token
GetTokenReturns ==
    /\ Answered("get_token", "token")
    /\ UNCHANGED <<remote_files, jobs, deployments, train_file, val_file, ft_job,
                   fine_tuned_model, r_response, wpc, epc>>

\* r = requests.put(...); print(r); print(r.reason); print(r.json()): the
\* service creates the deployment or refuses it, r is printed either way
\* and the cell that picks the test row is next
DeployReturns ==
    /\ \E status_code \in IF fine_tuned_model = "None" THEN {400} ELSE {201, 409} :
         /\ Answered("deploy", status_code)
         /\ r_response' = [status_code |-> status_code]
         /\ deployments' = IF status_code = 201
                           THEN deployments \cup {aoai_deployment_name}
                           ELSE deployments
    /\ epc' = "select_row"
    /\ UNCHANGED <<remote_files, jobs, train_file, val_file, ft_job, fine_tuned_model, wpc>>

\* idx = 0; question = ds_test.iloc[idx]['question']; img = ...; answer = ...
SelectTestRow ==
    /\ epc = "select_row"
    /\ IF ds_test = <<>>
       THEN epc' = "failed" /\ raised' = Exc("IndexError")
       ELSE epc' = "test_query" /\ raised' = raised
    /\ UNCHANGED <<ds_test, ds_test_eval, row_i, partial, rstate, attempt_number, events,
                   inflight, returned, chart_data>>
    /\ UNCHANGED writerVars
    /\ UNCHANGED pipelineVars

\* the service moves a job on: pending, running, then succeeded or failed
ServiceAdvancesJob ==
    /\ ppc # "idle"
    /\ \E id \in JobIds :
         \/ /\ jobs[id].status = "pending"
            /\ jobs' = [jobs EXCEPT ![id] = Job("running", @.training_file, @.validation_file)]
         \/ /\ jobs[id].status = "running"
            /\ \E st \in {"succeeded", "failed"} :
                 jobs' = [jobs EXCEPT ![id] = Job(st, @.training_file, @.validation_file)]
    /\ UNCHANGED <<ppc, pcalls, remote_files, deployments, train_file, val_file, ft_job,
                   fine_tuned_model, r_response>>
    /\ UNCHANGED <<tpc, results_df, figure, details_dict, sorted_df>>
    /\ UNCHANGED writerVars
    /\ UNCHANGED evalVars

NextPipeline ==
    \/ SendRequest
    \/ RequestFails
    \/ ConnectionTestReturns
    \/ UploadReturns
    \/ CreateJobReturns
    \/ ListJobsReturns
    \/ RetrieveJobReturns
    \/ DownloadResultsReturns
    \/ ListModelsReturns
    \/ GetTokenReturns
    \/ DeployReturns
    \/ SelectTestRow
    \/ ServiceAdvancesJob

Next == NextPipeline \/ NextWriter \/ NextEval

Spec == Init /\ [][Next]_vars

-----------------------------------------------------------------------------
(* Claims about the retry wrapper and the accuracy cell (checked under SpecEval) *)

IsCall(e) == e.kind = "call"

\* the attempts of the current (or last) wrapped call
Attempts == SelectSeq(events, IsCall)

\* the wrapped call is over: it returned, or an exception left the wrapper
CallReturned == rstate = "idle" /\ events # <<>> /\ events[Len(events)].outcome = "ok"

\* C1: a wrapped call whose remote call fails on the first k-1 attempts and
\* succeeds on attempt k (k in 1..3) returns that success value to its
\* caller after exactly k calls; the wrapper does not give up before three
\* attempts have failed.
C1_SuccessAfterFailures ==
    /\ CallReturned =>
         LET k == Len(Attempts)
         IN /\ k \in 1..3
            /\ \A j \in 1..(k - 1) : Attempts[j].outcome = "error"
            /\ \A j \in 1..k : Attempts[j].attempt = j /\ Attempts[j].at = "remote"
            /\ returned = Attempts[k].value
            /\ attempt_number = k
            /\ raised.type # "RetryError"
            /\ \A j \in 1..k : raised.type # Attempts[j].value
            /\ IsApply(epc) /\ partial # <<>> => partial[Len(partial)] = Attempts[k].value
    /\ (Len(Attempts) < 3 /\ \A j \in 1..Len(Attempts) : Attempts[j].outcome = "error")
         => raised.type # "RetryError"

\* C1 witness: the call failed twice, succeeded on the third attempt and
\* returned the third attempt's value
C1_Witness ==
    /\ CallReturned
    /\ Len(Attempts) = 3
    /\ Attempts[1].outcome = "error"
    /\ Attempts[2].outcome = "error"
    /\ Attempts[3].outcome = "ok"
    /\ returned = Attempts[3].value
    /\ returned \in Predictions

C3_BoundedFixedDelay ==
    /\ Len(Attempts) <= 3
    /\ events # <<>> => events[1].kind = "call"
    /\ \A p \in 1..Len(events) :
         /\ events[p].kind = "sleep" =>
              /\ events[p].seconds = 10
              /\ p > 1 /\ events[p - 1].kind = "call"
              /\ p < Len(events) => events[p + 1].kind = "call"
         /\ (events[p].kind = "call" /\ p > 1) => events[p - 1].kind = "sleep"
         /\ (events[p].kind = "call" /\ events[p].outcome = "error" /\ events[p].attempt < 3)
              => (p < Len(events) /\ events[p + 1].kind = "sleep")
         /\ (events[p].kind = "call" /\ (events[p].outcome = "ok" \/ events[p].attempt = 3))
              => p = Len(events)
    /\ (rstate = "attempt" /\ attempt_number = 1) => events = <<>>
    /\ rstate = "sleep" <=> (events # <<>> /\ events[Len(events)].kind = "sleep"
                             /\ rstate # "attempt" /\ rstate # "waitremote")

\* C3 witness: a call over after three attempts with two delays in between,
\* the retried errors of different types
C3_Witness ==
    /\ rstate = "idle"
    /\ Len(events) = 5
    /\ events[1].outcome = "error" /\ events[3].outcome = "error"
    /\ events[1].value # events[3].value
    /\ events[2].kind = "sleep" /\ events[4].kind = "sleep"
    /\ events[5].kind = "call"

\* C6: over an evaluation table of zero rows the accuracy cell raises no
\* division error and reports a defined value for both accuracies.
C6_ZeroRowsSentinel ==
    (/\ NRows = 0
     /\ ds_test_eval.cols["gpt-4o-base-eval"].set
     /\ ds_test_eval.cols["gpt-4o-ft-eval"].set
     /\ epc \in {"done", "failed"})
      => (raised.type # "ZeroDivisionError" /\ chart_data.set)

\* C7: for a table of n >= 1 rows each reported accuracy is the number of
\* rows whose verdict is exactly "CORRECT" over n; every other verdict
\* counts as not correct, the count is at most n, both accuracies have the
\* denominator n, and both lie between 0 and 1.
C7_Accuracy ==
    chart_data.set =>
        LET n == Len(ds_test_eval.rows)
            exact(c) == Cardinality({i \in 1..n : ds_test_eval.cols[c].vals[i] = "CORRECT"})
            other(c) == Cardinality({i \in 1..n : ds_test_eval.cols[c].vals[i] # "CORRECT"})
            base == chart_data.baseline_accuracy
            ft == chart_data.fine_tuned_accuracy
        IN /\ n >= 1
           /\ Len(ds_test_eval.cols["gpt-4o-base-eval"].vals) = n
           /\ Len(ds_test_eval.cols["gpt-4o-ft-eval"].vals) = n
           /\ base = <<exact("gpt-4o-base-eval"), n>>
           /\ ft = <<exact("gpt-4o-ft-eval"), n>>
           /\ base[1] + other("gpt-4o-base-eval") = n
           /\ ft[1] + other("gpt-4o-ft-eval") = n
           /\ base[2] = ft[2]
           /\ 0 <= base[1] /\ base[1] <= base[2]
           /\ 0 <= ft[1] /\ ft[1] <= ft[2]

\* C7 witness: two rows, one judged "CORRECT" and one "CORRECT.", reported
\* as one half
C7_Witness ==
    /\ chart_data.set
    /\ ds_test_eval.cols["gpt-4o-base-eval"].vals = <<"CORRECT", "CORRECT.">>
    /\ chart_data.baseline_accuracy = <<1, 2>>
    /\ chart_data.fine_tuned_accuracy = <<0, 2>>

\* C9: execution is sequential: at most one remote call is outstanding at
\* any time; while one is outstanding the notebook waits for it, and while
\* the wrapper sleeps or the notebook is between calls none is outstanding.
C9_Sequential ==
    /\ Cardinality(inflight) <= 1
    /\ inflight # {} => rstate = "waitremote"
    /\ rstate \in {"idle", "attempt", "sleep"} => inflight = {}
    /\ \A c \in inflight : c.attempt = attempt_number /\ c.fn = CellFn(epc)

\* C9 witness: the second attempt of a call is outstanding after the first
\* one failed and the delay passed
C9_Witness ==
    /\ Cardinality(inflight) = 1
    /\ attempt_number = 2
    /\ Len(events) = 2
    /\ events[2].kind = "sleep"

-----------------------------------------------------------------------------
(* Claims about the remote calls of the whole run (checked under Spec) *)

\* the calls cell c made so far
CallsOf(c) == {p \in 1..Len(pcalls) : pcalls[p].cell = c}

\* a wrapped call gave up
WrappedCallFailed == raised.type = "RetryError"

\* C10 (as amended): only the chat completions inside query_image and
\* evaluate are re-attempted, up to 3 attempts, before RetryError reaches
\* the caller.  Every other remote call (connection test, file upload, job
\* create, list and retrieve, result-file download, model list, token
\* request, deployment PUT) is made once: when it raises, its exception
\* ends the run at once, and no cell calls again.
C10_OnlyWrappedCallsRetried ==
    /\ \A k \in 1..Len(PipelineCells) : Cardinality(CallsOf(PipelineCells[k])) <= 1
    /\ \A p \in 1..Len(pcalls) :
         pcalls[p].outcome = "error" =>
             /\ p = Len(pcalls)
             /\ ppc = "failed"
             /\ raised = [type |-> pcalls[p].value, wraps |-> "none"]
             /\ epc = "idle"
    /\ Len(Attempts) <= 3
    /\ WrappedCallFailed =>
         /\ Len(Attempts) = 3
         /\ \A j \in 1..3 : Attempts[j].outcome = "error"

\* C10 witness: the job creation raised after the connection test and both
\* uploads had answered; the exception ended the run after that one call
C10_Witness ==
    /\ ppc = "failed"
    /\ Len(pcalls) = 4
    /\ pcalls[4] = [cell |-> "create_job", fn |-> "fine_tuning.jobs.create",
                    outcome |-> "error", value |-> "RateLimitError"]
    /\ raised.type = "RateLimitError"
    /\ \A p \in 1..3 : pcalls[p].outcome = "ok"

\* C10 as stated: the error of a remote call reaches the caller only after
\* the call was re-attempted.
C10_Original ==
    \A p \in 1..Len(pcalls) :
        (pcalls[p].outcome = "error" /\ raised.type = pcalls[p].value)
            => Cardinality(CallsOf(pcalls[p].cell)) >= 2

-----------------------------------------------------------------------------
(* Claims about the fine-tuning job (checked under Spec) *)

\* the deployment cell has sent its PUT
DeploySent ==
    \/ ppc = "deploy" /\ inflight # {}
    \/ CallsOf("deploy") # {}

\* the retrieve cell has run: ft_job and fine_tuned_model are assigned
JobRetrieved == \E p \in CallsOf("retrieve_job") : pcalls[p].outcome = "ok"

JobReadCells == {"list_jobs_1", "list_jobs_5", "retrieve_job", "download_results"}

\* C12: the job record belongs to the service.  A step of a cell that lists
\* or retrieves jobs or downloads the result file leaves every job record
\* (identifier, status, model identifier) as it was; a job record changes
\* only when the create cell's call is answered, which adds the new job and
\* touches no other, or when the service moves a job on by itself, which is
\* no step of the notebook.
C12_JobOwnedByService ==
    [][/\ (ppc \in JobReadCells /\ <<ppc, pcalls, inflight>>' # <<ppc, pcalls, inflight>>)
            => jobs' = jobs
       /\ jobs' # jobs =>
            \/ /\ ppc = "create_job"
               /\ pcalls' = Append(pcalls, PipelineEvent("create_job", "ok", NewJob))
               /\ jobs[NewJob] = NoJob
               /\ jobs'[NewJob].status = "pending"
               /\ \A id \in JobIds \ {NewJob} : jobs'[id] = jobs[id]
            \/ /\ UNCHANGED <<ppc, pcalls, inflight, ft_job, fine_tuned_model>>
               /\ \A id \in JobIds :
                    /\ (jobs[id] = NoJob) = (jobs'[id] = NoJob)
                    /\ jobs'[id].training_file = jobs[id].training_file
                    /\ jobs'[id].validation_file = jobs[id].validation_file]_vars

\* C12 witness: the snapshot the retrieve cell took is still held after the
\* service moved that job on
C12_Witness ==
    /\ JobRetrieved
    /\ ft_job.job.status = "running"
    /\ jobs[ft_job.id].status = "succeeded"
    /\ CallsOf("list_jobs_5") # {}

-----------------------------------------------------------------------------
(* Claims about the evaluation harness (checked under SpecEval) *)

\* the prediction column of the model a verdict cell judges
PredColumnOf(c) == IF c = "base_eval" THEN "gpt-4o-base-pred" ELSE "gpt-4o-ft-pred"

\* C13: for every row of the evaluation table and each of the two models,
\* query_image is called once and gives one prediction, and evaluate is
\* called once on that row and that prediction.  A verdict cell runs only
\* when the prediction column of its model holds a value for every row; the
\* request of evaluate for row i carries the prediction of row i of that
\* column; apply has one result per row it went through; and the accuracy
\* is computed only when both verdict columns hold a value for every row.
C13_PredictThenJudge ==
    /\ IsApply(epc) =>
         /\ Len(partial) = row_i - 1
         /\ row_i <= NRows + 1
         /\ \A q \in inflight :
              /\ q.row = row_i
              /\ q.fn = CellFn(epc)
    /\ epc \in {"base_eval", "ft_eval"} =>
         /\ ds_test_eval.cols[PredColumnOf(epc)].set
         /\ Len(ds_test_eval.cols[PredColumnOf(epc)].vals) = NRows
         /\ \A q \in inflight :
              /\ q.fn = "evaluate"
              /\ q.predicted = ds_test_eval.cols[PredColumnOf(epc)].vals[q.row]
    /\ epc \in {"base_pred", "ft_pred"} =>
         /\ ~ds_test_eval.cols["gpt-4o-base-eval"].set
         /\ ~ds_test_eval.cols["gpt-4o-ft-eval"].set
    /\ \A col \in ColumnNames :
         ds_test_eval.cols[col].set => Len(ds_test_eval.cols[col].vals) = NRows
    /\ epc \in {"chart", "done"} \/ chart_data.set =>
         \A col \in ColumnNames : ds_test_eval.cols[col].set

\* C13 witness: two rows judged for both models, whose predictions differ,
\* and the accuracy computed from the four verdicts
C13_Witness ==
    /\ chart_data.set
    /\ NRows = 2
    /\ ds_test_eval.cols["gpt-4o-base-pred"].vals = <<"42", "forty-two">>
    /\ ds_test_eval.cols["gpt-4o-ft-pred"].vals = <<"forty-two", "42">>
    /\ ds_test_eval.cols["gpt-4o-base-eval"].vals = <<"CORRECT", "INCORRECT">>
    /\ ds_test_eval.cols["gpt-4o-ft-eval"].vals = <<"INCORRECT", "CORRECT">>

-----------------------------------------------------------------------------
(* show_ft_metrics: filter the validation rows, smooth, plot               *)

\* The rows of the metrics table are the steps of the training.
MaxSteps == 7

\* A float is <<numerator, denominator>> with a positive denominator, or NaN.
NaN == <<>>

\* a == b on floats: NaN equals nothing, itself included
FloatEq(a, b) == a # NaN /\ b # NaN /\ a[1] * b[2] = b[1] * a[2]

RECURSIVE FloatSum(_)
\* the sum of a sequence of floats none of which is NaN
FloatSum(xs) ==
    IF xs = <<>> THEN <<0, 1>>
    ELSE LET rest == FloatSum(Tail(xs))
         IN <<Head(xs)[1] * rest[2] + rest[1] * Head(xs)[2], Head(xs)[2] * rest[2]>>

\* the default of show_ft_metrics' window_size parameter
window_size == 5

MetricsColumns ==
    {"step", "train_loss", "train_mean_token_accuracy", "valid_loss",
     "valid_mean_token_accuracy"}

\* a row of the results file: every step has its training metrics; the
\* validation metrics are those of a step that was validated, or -1.0 or
\* missing for a step that was not
MetricsRow(step, validation) ==
    [c \in MetricsColumns |->
        CASE c = "step" -> <<step, 1>>
          [] c = "train_loss" -> <<((step * step) % 7) + 1, 1>>
          [] c = "train_mean_token_accuracy" -> <<step % 3, 4>>
          [] validation = "missing" -> NaN
          [] validation = "minus_one" -> <<-1, 1>>
          [] c = "valid_loss" -> <<((step * 3) % 5) + 2, 1>>
          [] OTHER -> <<(step + 1) % 4, 4>>]

\* the metrics tables of up to MaxSteps steps
MetricsTables ==
    UNION {{[i \in 1..n |-> MetricsRow(i, v[i])] :
              v \in [1..n -> {"missing", "minus_one", "measured"}]} : n \in 0..MaxSteps}

\* FilteredDf that drops the missing values only
FilteredDfDropnaOnly(df) == SelectSeq(df, LAMBDA row : row["valid_loss"] # NaN)

\* filtered_df = results_df.dropna(subset=['valid_loss']);
\* filtered_df = filtered_df.loc[filtered_df['valid_loss'] != -1.0]
FilteredDf(df) ==
    LET dropped == SelectSeq(df, LAMBDA row : row["valid_loss"] # NaN)
    IN SelectSeq(dropped, LAMBDA row : ~FloatEq(row["valid_loss"], <<-1, 1>>))

\* RollingMean that averages whatever the window holds
RollingMeanShortWindows(df, window) ==
    [i \in 1..Len(df) |->
        [c \in MetricsColumns |->
            LET first == IF i - window + 1 >= 1 THEN i - window + 1 ELSE 1
                obs == SelectSeq([k \in 1..(i - first + 1) |-> df[first + k - 1][c]],
                                 LAMBDA x : x # NaN)
            IN IF obs = <<>> THEN NaN
               ELSE <<FloatSum(obs)[1], FloatSum(obs)[2] * Len(obs)>>]]

\* df.rolling(window=window).mean(): per column, the mean of the values of
\* the last window rows; min_periods defaults to window, so a row whose
\* window holds fewer than window values that are not NaN gets NaN
RollingMean(df, window) ==
    [i \in 1..Len(df) |->
        [c \in MetricsColumns |->
            LET first == IF i - window + 1 >= 1 THEN i - window + 1 ELSE 1
                obs == SelectSeq([k \in 1..(i - first + 1) |-> df[first + k - 1][c]],
                                 LAMBDA x : x # NaN)
                min_periods == window
            IN IF Len(obs) < min_periods THEN NaN
               ELSE <<FloatSum(obs)[1], FloatSum(obs)[2] * Len(obs)>>]]

\* show_ft_metrics(results_df); Curve is plt.plot(df_smooth['step'],
\* df_smooth[column]), the points of one curve
ShowFtMetrics ==
    /\ tpc = "show_ft_metrics"
    /\ LET Curve(df_smooth, column) ==
               [i \in 1..Len(df_smooth) |-> <<df_smooth[i]["step"], df_smooth[i][column]>>]
           filtered_df == FilteredDf(results_df)
           results_df_smooth == RollingMean(results_df, window_size)
           filtered_df_smooth == RollingMean(filtered_df, window_size)
       IN figure' =
            [curves |->
               <<Curve(results_df_smooth, "train_loss"),
                 Curve(results_df_smooth, "train_mean_token_accuracy"),
                 Curve(filtered_df_smooth, "valid_loss"),
                 Curve(filtered_df_smooth, "valid_mean_token_accuracy")>>]
    /\ tpc' = "done"
    /\ UNCHANGED <<results_df, details_dict, sorted_df>>
    /\ UNCHANGED <<ppc, pcalls, remote_files, jobs, deployments, train_file, val_file,
                   ft_job, fine_tuned_model, r_response>>
    /\ UNCHANGED writerVars
    /\ UNCHANGED evalVars

-----------------------------------------------------------------------------
(* date_sorted_df: rename, format the timestamps, sort                     *)

\* The table date_sorted_df is given holds at most MaxDetails rows.
MaxDetails == 3

\* pd.to_datetime(seconds, unit='s') followed by
\* .dt.strftime('%Y-%m-%d %H:%M:%S'): the UTC civil date and time of a
\* whole number of seconds since 1970-01-01, every field zero padded
Strftime(seconds) ==
    LET Pad(n, width) == [k \in 1..(width - Len(Digits(n))) |-> "0"] \o Digits(n)
        days == seconds \div 86400
        rest == seconds % 86400
        z == days + 719468
        era == z \div 146097
        doe == z - era * 146097
        yoe == (doe - doe \div 1460 + doe \div 36524 - doe \div 146096) \div 365
        doy == doe - (365 * yoe + yoe \div 4 - yoe \div 100)
        mp == (5 * doy + 2) \div 153
        day == doy - (153 * mp + 2) \div 5 + 1
        month == IF mp < 10 THEN mp + 3 ELSE mp - 9
        year == yoe + era * 400 + (IF month <= 2 THEN 1 ELSE 0)
    IN Pad(year, 4) \o <<"-">> \o Pad(month, 2) \o <<"-">> \o Pad(day, 2) \o <<" ">>
       \o Pad(rest \div 3600, 2) \o <<":">> \o Pad((rest % 3600) \div 60, 2) \o <<":">>
       \o Pad(rest % 60, 2)

\* a < b on str: by the first character that differs, a proper prefix
\* first; the characters of a formatted time order as space, hyphen, the
\* digits, colon
StrLess(a, b) ==
    LET glyphs == <<" ", "-">> \o DigitGlyphs \o <<":">>
        ord(g) == CHOOSE k \in 1..Len(glyphs) : glyphs[k] = g
        common == IF Len(a) <= Len(b) THEN Len(a) ELSE Len(b)
        differ == {k \in 1..common : a[k] # b[k]}
    IN IF differ = {} THEN Len(a) < Len(b)
       ELSE LET k == CHOOSE d \in differ : \A e \in differ : d <= e
            IN ord(a[k]) < ord(b[k])

\* creation times the service may report, in seconds since 1970-01-01
Timestamps == {32400, 36000, 86399, 86400, 951782400, 1000000000}

\* a row of an API table: a job has created_at and finished_at (missing
\* while it runs), a model has created_at or created
DetailsRow(shape, id, seconds) ==
    CASE shape = "created" -> [id |-> id, created |-> <<seconds, 1>>]
      [] shape = "created_at" -> [id |-> id, created_at |-> <<seconds, 1>>]
      [] OTHER -> [id |-> id, created_at |-> <<seconds, 1>>,
                   finished_at |-> IF id % 2 = 0 THEN <<seconds + 60, 1>> ELSE NaN]

\* the tables of up to MaxDetails rows
DetailsTables ==
    UNION {{[i \in 1..n |-> DetailsRow(shape, i, t[i])] :
              t \in [1..n -> Timestamps], shape \in {"created", "created_at", "job"}} :
           n \in 0..MaxDetails}

\* SortValues in ascending order
SortValuesAscending(df, by) ==
    {[k \in 1..Len(df) |-> df[order[k]]] :
        order \in {o \in [1..Len(df) -> 1..Len(df)] :
                     /\ \A i, j \in 1..Len(df) : i # j => o[i] # o[j]
                     /\ \A i, j \in 1..Len(df) :
                          i < j => ~StrLess(df[o[j]][by], df[o[i]][by])}}

\* df.sort_values(by=by, ascending=False): the rows in descending order of
\* the column; the default sort is not stable, so rows with equal values
\* come in any order
SortValues(df, by) ==
    {[k \in 1..Len(df) |-> df[order[k]]] :
        order \in {o \in [1..Len(df) -> 1..Len(df)] :
                     /\ \A i, j \in 1..Len(df) : i # j => o[i] # o[j]
                     /\ \A i, j \in 1..Len(df) :
                          i < j => ~StrLess(df[o[i]][by], df[o[j]][by])}}

\* the columns of pd.DataFrame(details_dict): those of its rows, none for
\* an empty list
Columns(df) == IF df = <<>> THEN {} ELSE DOMAIN df[1]

\* date_sorted_df(details_dict)
DateSortedDf ==
    /\ tpc = "date_sorted_df"
    /\ LET renamed == [i \in 1..Len(details_dict) |->
                         [c \in (Columns(details_dict) \ {"created"})
                                  \cup (IF "created" \in Columns(details_dict)
                                        THEN {"created_at"} ELSE {}) |->
                             IF c = "created_at" /\ "created" \in Columns(details_dict)
                             THEN details_dict[i]["created"]
                             ELSE details_dict[i][c]]]
           formatted == [i \in 1..Len(renamed) |->
                           [c \in Columns(renamed) |->
                               CASE c = "created_at" -> Strftime(renamed[i][c][1])
                                 [] c = "finished_at" /\ renamed[i][c] # NaN
                                      -> Strftime(renamed[i][c][1])
                                 [] OTHER -> renamed[i][c]]]
       IN IF "created_at" \notin Columns(renamed)
          THEN /\ raised' = Exc("KeyError")
               /\ tpc' = "failed"
               /\ sorted_df' = sorted_df
          ELSE /\ sorted_df' \in SortValues(formatted, "created_at")
               /\ tpc' = "done"
               /\ raised' = raised
    /\ UNCHANGED <<results_df, figure, details_dict>>
    /\ UNCHANGED <<ppc, pcalls, remote_files, jobs, deployments, train_file, val_file,
                   ft_job, fine_tuned_model, r_response>>
    /\ UNCHANGED <<ds_test, ds_test_eval, epc, row_i, partial, rstate, attempt_number,
                   events, inflight, returned, chart_data>>
    /\ UNCHANGED writerVars

InitTables ==
    /\ WriterIdle
    /\ files = [f \in FileNames |-> NoFile]
    /\ EvalIdle
    /\ PipelineIdle
    /\ deployments = {}
    /\ figure = NoFigure
    /\ sorted_df = <<>>
    /\ \/ /\ tpc = "show_ft_metrics"
          /\ results_df \in MetricsTables
          /\ details_dict = <<>>
       \/ /\ tpc = "date_sorted_df"
          /\ details_dict \in DetailsTables
          /\ results_df = <<>>

NextTables ==
    \/ ShowFtMetrics
    \/ DateSortedDf

SpecTables == InitTables /\ [][NextTables]_vars

-----------------------------------------------------------------------------
(* Claims about the display helpers (checked under SpecTables) *)

\* the values of a column of a table, in row order
ColumnOf(df, column) == [i \in 1..Len(df) |-> df[i][column]]

\* ys is the rolling mean of xs over windows of w values: as long as xs,
\* undefined on the first w - 1 rows, the mean of rows i-w+1..i after them
IsSmoothed(ys, xs, w) ==
    /\ Len(ys) = Len(xs)
    /\ \A i \in 1..Len(xs) :
         IF i < w THEN ys[i] = NaN
         ELSE LET total == FloatSum(SubSeq(xs, i - w + 1, i))
              IN FloatEq(ys[i], <<total[1], total[2] * w>>)
    /\ Cardinality({i \in 1..Len(ys) : ys[i] # NaN}) = Max(0, Len(xs) - w + 1)

\* the curves plotted from results_df and those plotted from filtered_df
TrainCurves == <<"train_loss", "train_mean_token_accuracy">>
ValidCurves == <<"valid_loss", "valid_mean_token_accuracy">>

\* C14: each plotted series is the rolling mean of its column over the
\* window of 5 rows: in a table of n rows the first 4 rows are NaN and row
\* i >= 5 is the mean of rows i-4..i, so max(0, n-4) rows are defined.  The
\* table is results_df for the training curves and the filtered table for
\* the validation curves; both axes of a curve are smoothed.
C14_RollingWindow ==
    tpc = "done" /\ figure # NoFigure =>
        \A k \in 1..2 :
            /\ IsSmoothed([i \in 1..Len(figure.curves[k]) |-> figure.curves[k][i][2]],
                          ColumnOf(results_df, TrainCurves[k]), window_size)
            /\ IsSmoothed([i \in 1..Len(figure.curves[k]) |-> figure.curves[k][i][1]],
                          ColumnOf(results_df, "step"), window_size)
            /\ IsSmoothed([i \in 1..Len(figure.curves[k + 2]) |-> figure.curves[k + 2][i][2]],
                          ColumnOf(FilteredDf(results_df), ValidCurves[k]), window_size)

\* C14 witness: a table of 7 steps gives 3 defined points of train loss,
\* and its 5 validated steps give 1 defined point of validation loss
C14_Witness ==
    /\ tpc = "done"
    /\ Len(results_df) = 7
    /\ Cardinality({i \in 1..Len(figure.curves[1]) : figure.curves[1][i][2] # NaN}) = 3
    /\ Len(figure.curves[3]) = 5
    /\ figure.curves[3][5][2] # NaN

\* the steps whose validation loss is neither missing nor -1.0, in order
ValidatedSteps ==
    LET kept == {i \in 1..Len(results_df) :
                   /\ results_df[i]["valid_loss"] # NaN
                   /\ results_df[i]["valid_loss"] # <<-1, 1>>}
    IN [j \in 1..Cardinality(kept) |->
          CHOOSE i \in kept : Cardinality({k \in kept : k <= i}) = j]

\* C16: rows whose valid_loss is NaN or -1.0 are dropped before the
\* validation curves are smoothed: those curves have one point per
\* surviving row, and point j >= 5 is the mean over the 5 consecutive
\* survivors ending at the j-th, whatever steps lie between them; the
\* training curves have one point per row of the whole table, and point
\* i >= 5 is the mean over rows i-4..i, dropped rows included.
C16_ValidationFiltered ==
    tpc = "done" /\ figure # NoFigure =>
        LET s == ValidatedSteps
        IN \A k \in 1..2 :
            /\ Len(figure.curves[k + 2]) = Len(s)
            /\ \A j \in 1..Len(s) :
                 IF j < window_size THEN figure.curves[k + 2][j][2] = NaN
                 ELSE LET total == FloatSum([m \in 1..window_size |->
                                       results_df[s[j - window_size + m]][ValidCurves[k]]])
                      IN FloatEq(figure.curves[k + 2][j][2],
                                 <<total[1], total[2] * window_size>>)
            /\ Len(figure.curves[k]) = Len(results_df)
            /\ \A i \in 1..Len(results_df) :
                 IF i < window_size THEN figure.curves[k][i][2] = NaN
                 ELSE LET total == FloatSum([m \in 1..window_size |->
                                       results_df[i - window_size + m][TrainCurves[k]]])
                      IN FloatEq(figure.curves[k][i][2],
                                 <<total[1], total[2] * window_size>>)

\* C16 witness: of 7 steps the second has no validation loss and the fourth
\* has -1.0; the one defined validation point averages steps 1, 3, 5, 6, 7,
\* while the training curve has its 3 points
C16_Witness ==
    /\ tpc = "done"
    /\ Len(results_df) = 7
    /\ ValidatedSteps = <<1, 3, 5, 6, 7>>
    /\ results_df[2]["valid_loss"] = NaN
    /\ results_df[4]["valid_loss"] = <<-1, 1>>
    /\ figure.curves[3][5][1] = <<22, 5>>
    /\ figure.curves[1][7][2] # NaN

\* the creation time, in seconds, of the row date_sorted_df was given under id
CreatedOf(id) ==
    LET given == details_dict[CHOOSE i \in 1..Len(details_dict) : details_dict[i].id = id]
    IN IF "created" \in DOMAIN given THEN given["created"][1] ELSE given["created_at"][1]

\* C17: the table date_sorted_df returns holds the rows it was given, each
\* once, none added or dropped; a 'created' column is named 'created_at';
\* the rows come in non-increasing order of their creation timestamp; and
\* the formatted 'YYYY-MM-DD HH:MM:SS' strings order any two rows as their
\* Unix timestamps do.
C17_DateSorted ==
    tpc = "done" /\ figure = NoFigure =>
        /\ Len(sorted_df) = Len(details_dict)
        /\ \A i \in 1..Len(details_dict) :
             Cardinality({k \in 1..Len(sorted_df) : sorted_df[k].id = details_dict[i].id}) = 1
        /\ \A k \in 1..Len(sorted_df) :
             /\ "created" \notin DOMAIN sorted_df[k]
             /\ DOMAIN sorted_df[k] = (Columns(details_dict) \ {"created"}) \cup {"created_at"}
             /\ sorted_df[k]["created_at"] = Strftime(CreatedOf(sorted_df[k].id))
        /\ \A i, j \in 1..Len(sorted_df) :
             /\ i < j => CreatedOf(sorted_df[i].id) >= CreatedOf(sorted_df[j].id)
             /\ StrLess(sorted_df[i]["created_at"], sorted_df[j]["created_at"])
                  <=> CreatedOf(sorted_df[i].id) < CreatedOf(sorted_df[j].id)

\* C17 witness: three models created at 09:00:00, on the next day and at
\* 10:00:00, given under 'created', come back newest first under 'created_at'
C17_Witness ==
    /\ tpc = "done"
    /\ Len(details_dict) = 3
    /\ "created" \in Columns(details_dict)
    /\ <<details_dict[1]["created"][1], details_dict[2]["created"][1],
         details_dict[3]["created"][1]>> = <<32400, 86400, 36000>>
    /\ <<sorted_df[1].id, sorted_df[2].id, sorted_df[3].id>> = <<2, 3, 1>>
    /\ sorted_df[1]["created_at"] = Strftime(86400)

-----------------------------------------------------------------------------
(* Claims about the order of the remote steps (checked under Spec) *)

\* cell c has sent its request
Sent(c) == (ppc = c /\ inflight # {}) \/ \E p \in 1..Len(pcalls) : pcalls[p].cell = c

\* the value cell c's request was answered with, in a one-element set
AnswerOf(c) ==
    {pcalls[p].value : p \in {q \in 1..Len(pcalls) :
                                 pcalls[q].cell = c /\ pcalls[q].outcome = "ok"}}

\* C15: the remote steps come in a fixed order.  An upload is sent only
\* when the conversion cell is through, so the file it opens holds every
\* record of its split; the service stores what the file holds.  The job is
\* created only after both uploads were answered, the training file first,
\* and it names exactly the two identifiers the uploads returned: the
\* training file's as training_file, the validation file's as
\* validation_file.
C15_FixedOrder ==
    /\ \A k \in 1..2 :
         LET c == <<"upload_train", "upload_val">>[k]
         IN /\ Sent(c) =>
                 /\ wpc = "done"
                 /\ Written(k)
                 /\ Len(FileLines(k)) = Len(Survivors(datasets[k]))
            /\ \A id \in AnswerOf(c) :
                 /\ remote_files[id].name = DatasetFile(splits[k])
                 /\ remote_files[id].content = files[DatasetFile(splits[k])].content
                 /\ id = <<train_file, val_file>>[k]
    /\ Sent("upload_val") => AnswerOf("upload_train") # {}
    /\ Sent("create_job") =>
         /\ AnswerOf("upload_train") = {train_file}
         /\ AnswerOf("upload_val") = {val_file}
         /\ train_file # val_file
    /\ jobs[NewJob] # NoJob =>
         /\ AnswerOf("create_job") = {NewJob}
         /\ AnswerOf("upload_train") = {jobs[NewJob].training_file}
         /\ AnswerOf("upload_val") = {jobs[NewJob].validation_file}

\* C15 witness: the job was created on the two uploaded files, the
\* training file holding the one record of the split's two rows that could
\* be built
C15_Witness ==
    /\ jobs[NewJob] # NoJob
    /\ jobs[NewJob].training_file = 1
    /\ jobs[NewJob].validation_file = 2
    /\ remote_files[1].name = DatasetFile("train")
    /\ remote_files[2].name = DatasetFile("val")
    /\ Len(Lines(remote_files[1].content)) = 1
    /\ Len(datasets[1]) = 2

-----------------------------------------------------------------------------
(* Claims about the retry budget and a failed column (checked under SpecEval) *)

\* C18: the retry budget belongs to the invocation.  Every call of
\* query_image or evaluate starts at attempt 1 with an empty record,
\* whatever the attempts of the call before it were; no call makes more
\* than 3 attempts; a failed attempt below the third is followed by the
\* wait and the next attempt, for every row alike; and a row is done after
\* 1 to 3 remote calls, the last of which answered.  A column of n rows is
\* n such calls, so between n and 3n remote calls.
C18_FreshBudget ==
    [][/\ (rstate = "idle" /\ rstate' = "attempt") =>
            /\ attempt_number' = 1
            /\ events' = <<>>
       /\ attempt_number' <= QueryImageAttempts
       /\ Len(Attempts') <= QueryImageAttempts
       /\ (rstate \in {"attempt", "waitremote"} /\ Len(Attempts') > Len(Attempts)
           /\ Attempts'[Len(Attempts')].outcome = "error" /\ attempt_number < QueryImageAttempts)
            => /\ rstate' = "sleep"
               /\ raised' = raised
               /\ row_i' = row_i
       /\ (IsApply(epc) /\ row_i' = row_i + 1) =>
            /\ Len(Attempts') \in 1..QueryImageAttempts
            /\ Attempts'[Len(Attempts')].outcome = "ok"
            /\ \A j \in 1..(Len(Attempts') - 1) : Attempts'[j].outcome = "error"
            /\ \A j \in 1..Len(Attempts') : Attempts'[j].at = "remote"
            /\ Len(partial') = Len(partial) + 1]_vars

\* C18 witness: the call for the first row returned on its third attempt,
\* after two failures, and the call for the second row is due: it starts
\* at attempt 1
C18_Witness ==
    /\ IsApply(epc)
    /\ row_i = 2
    /\ NRows >= 2
    /\ rstate = "idle"
    /\ Len(partial) = 1
    /\ Len(Attempts) = 3
    /\ Attempts[1].outcome = "error"
    /\ Attempts[2].outcome = "error"
    /\ Attempts[3].outcome = "ok"
    /\ ENABLED (Invoke /\ attempt_number' = 1 /\ events' = <<>>)

\* C19: when the wrapped call for a row gives up with RetryError, the cell
\* ends with it: the table is as it was before the cell (the cell's column
\* is not set, the columns set earlier keep their values), no request is
\* outstanding, no chart is made, and no cell or row runs after it.
C19_ColumnAborted ==
    [][/\ epc # "failed"
       /\ raised' # raised =>
            /\ epc' = "failed"
            /\ ds_test_eval' = ds_test_eval
            /\ IsApply(epc) => ~ds_test_eval'.cols[CellColumn(epc)].set
            /\ inflight' = {}
            /\ rstate' = "idle"
            /\ row_i' = row_i
            /\ chart_data' = chart_data]_vars

\* C19 witness: the verdict cell of the base model judged the first row and
\* gave up on the second; both prediction columns are as they were and the
\* verdict column is not set
C19_Witness ==
    /\ epc = "failed"
    /\ raised.type = "RetryError"
    /\ NRows = 2
    /\ row_i = 2
    /\ Len(partial) = 1
    /\ ds_test_eval.cols["gpt-4o-base-pred"].set
    /\ ds_test_eval.cols["gpt-4o-ft-pred"].set
    /\ ~ds_test_eval.cols["gpt-4o-base-eval"].set
    /\ ~ds_test_eval.cols["gpt-4o-ft-eval"].set

-----------------------------------------------------------------------------
(* Claims about the index in a record's user text (checked under SpecWriter) *)

RECURSIVE DigitsValue(_)
\* int(s) for a string of decimal digits
DigitsValue(ds) ==
    IF ds = <<>> THEN 0
    ELSE DigitsValue(SubSeq(ds, 1, Len(ds) - 1)) * 10
         + ((CHOOSE d \in 1..10 : DigitGlyphs[d] = ds[Len(ds)]) - 1)

\* the number between the brackets of the j-th line of split k's file
IndexOfLine(k, j) == DigitsValue(RecoveredIndex(LineText(FileLines(k)[j])))

\* the zero-based positions of split k's rows whose processing raised
SkippedRows(k) == {i \in 0..(Len(datasets[k]) - 1) :
                     EncodeError(datasets[k][i + 1].image) # "none"}

\* C20: the index in "Question [idx]: ..." is the zero-based position of the
\* record's row in its input split, not the record's position in the file:
\* the indices of a written file are strictly increasing, are exactly the
\* positions of the split's rows that were not skipped (so they start again
\* from 0 in every split and leave a gap at every skipped row), and the
\* index of a line exceeds the line's own zero-based position by the number
\* of rows skipped before it.
C20_InputPosition ==
    \A k \in 1..Len(splits) :
      Written(k) =>
        LET n == Len(FileLines(k))
        IN /\ \A j \in 1..n :
                /\ HasQuestionPrefix(LineText(FileLines(k)[j]))
                /\ RecoveredIndex(LineText(FileLines(k)[j])) # <<>>
                /\ IndexOfLine(k, j) \in 0..(Len(datasets[k]) - 1)
                /\ RecoveredQuestion(LineText(FileLines(k)[j]))
                     = FormatValue(datasets[k][IndexOfLine(k, j) + 1].question)
                /\ IndexOfLine(k, j) - (j - 1)
                     = Cardinality({i \in SkippedRows(k) : i < IndexOfLine(k, j)})
           /\ \A j \in 1..n : \A m \in 1..n : j < m => IndexOfLine(k, j) < IndexOfLine(k, m)
           /\ {IndexOfLine(k, j) : j \in 1..n}
                = (0..(Len(datasets[k]) - 1)) \ SkippedRows(k)

\* C20 witness: a later split's file holds one line whose index is 1, the
\* position of its row in the split, while the line is the first of the
\* file: the split's row 0 was skipped
C20_Witness ==
    \E k \in 2..Len(splits) :
      /\ Written(k)
      /\ Written(1)
      /\ SkippedRows(k) = {0}
      /\ Len(datasets[k]) = 2
      /\ Len(FileLines(k)) = 1
      /\ IndexOfLine(k, 1) = 1

-----------------------------------------------------------------------------
(* Claims about the local step of query_image (checked under SpecEval) *)

\* the events of a wrapped call whose three attempts all raised error at
\* the local step
LocalFailureEvents(error) ==
    <<CallEvent(1, "local", "error", error), SleepEvent(QueryImageWait),
      CallEvent(2, "local", "error", error), SleepEvent(QueryImageWait),
      CallEvent(3, "local", "error", error)>>

\* C21: the retry decorator wraps the whole body of query_image, the
\* encoding of the image included.  An attempt whose encoding raises counts
\* as a failed attempt: no request is sent, and the wrapper waits 10 seconds
\* and runs the body again unless it was the third attempt; an encoding
\* failure leaves the wrapper only after three attempts and two waits of 10
\* seconds.  Every attempt starts the body from its top: a request is sent
\* only by an attempt that encoded the image, and carries that encoding.
C21_EncodingRetried ==
    [][/\ (rstate = "attempt" /\ CellFn(epc) = "query_image" /\ LocalError # "none") =>
            /\ inflight' = inflight
            /\ Len(Attempts') = Len(Attempts) + 1
            /\ Attempts'[Len(Attempts')]
                 = CallEvent(attempt_number, "local", "error", LocalError)
            /\ IF attempt_number < QueryImageAttempts
               THEN /\ rstate' = "sleep"
                    /\ events'[Len(events')] = SleepEvent(QueryImageWait)
                    /\ raised' = raised
                    /\ epc' = epc
               ELSE /\ raised'.wraps = LocalError
                    /\ epc' = "failed"
       /\ (raised' # raised /\ CellFn(epc) = "query_image" /\ rstate = "attempt") =>
            /\ events' = LocalFailureEvents(LocalError)
            /\ attempt_number = QueryImageAttempts
       /\ (CellFn(epc) = "query_image" /\ rstate' = "waitremote" /\ rstate # "waitremote") =>
            /\ rstate = "attempt"
            /\ LocalError = "none"
            /\ inflight' \ inflight = {CurrentCall}
            /\ CurrentCall.attempt = attempt_number
            /\ CurrentCall.image_url
                 = <<base64_prefix>> \o encode_image(CallRow.image, QueryQuality)
       /\ (CellFn(epc) = "query_image" /\ Len(Attempts') > Len(Attempts)) =>
            /\ Attempts'[Len(Attempts')].attempt = attempt_number
            /\ \/ rstate = "attempt" /\ LocalError # "none"
               \/ rstate = "waitremote" /\ CurrentCall \in inflight]_vars

\* C21 witness: query_image gave up on a row whose image cannot be encoded,
\* after three attempts that each raised at the encoding and two waits
C21_Witness ==
    /\ epc = "failed"
    /\ raised.type = "RetryError"
    /\ raised.wraps # "none"
    /\ events = LocalFailureEvents(raised.wraps)
    /\ inflight = {}
    /\ ds_test_eval.rows # <<>>
    /\ EncodeError(ds_test_eval.rows[row_i].image) = raised.wraps

-----------------------------------------------------------------------------
(* The JSONL cell run again: files of an earlier run may exist *)

\* a dataset file an earlier run of the cell left behind
StaleFile ==
    [exists |-> TRUE,
     content |-> FileContent(<<TrainingRecord(0, CHOOSE row \in SampleRows : WellFormed(row))>>)]

InitRerun ==
    /\ \E a \in SeqsUpTo(SampleRows, MaxRows) :
         \E b \in SeqsUpTo(SampleRows, MaxRows - Len(a)) :
           \E c \in SeqsUpTo(SampleRows, MaxRows - Len(a) - Len(b)) :
             datasets = <<a, b, c>>
    /\ wpc = "split"
    /\ split_i = 1
    /\ idx = 0
    /\ json_data = <<>>
    /\ files \in [FileNames -> {NoFile, StaleFile}]
    /\ log = <<>>
    /\ EvalIdle
    /\ PipelineIdle
    /\ deployments = {}
    /\ TablesIdle

SpecRerun == InitRerun /\ [][NextWriter]_vars

-----------------------------------------------------------------------------
(* Claims about the files of the splits (checked under SpecRerun) *)

RECURSIVE RecordsUpTo(_, _)
\* the records built from the first n rows of split k alone
RecordsUpTo(k, n) ==
    IF n = 0 THEN <<>>
    ELSE RowRecords(RecordsUpTo(k, n - 1), n - 1, datasets[k][n])

\* the splits whose file this run has written
SplitsDone == {k \in 1..Len(splits) : k < split_i}

\* C22: the splits are processed in the order train, val, test, and each is
\* written to its own file <project>-<split>.jsonl.  The record buffer is
\* emptied when a split starts and holds records of that split's rows only;
\* a file is written once, after the last row of its split, and then holds
\* exactly the records of that split, whatever stood in a file of that name
\* before; until then the file is as the run found it.
C22_OwnFile ==
    /\ [](/\ splits = <<"train", "val", "test">>
          /\ \A k \in 1..Len(splits) :
               /\ DatasetFile(splits[k]) = <<project_name, "-", splits[k], ".jsonl">>
               /\ \A m \in 1..Len(splits) :
                    DatasetFile(splits[k]) = DatasetFile(splits[m]) => k = m
          /\ wpc = "rows" => json_data = RecordsUpTo(split_i, idx)
          /\ wpc = "done" <=> split_i = Len(splits) + 1
          /\ \A k \in SplitsDone :
               /\ files[DatasetFile(splits[k])].exists
               /\ files[DatasetFile(splits[k])].content
                    = FileContent(RecordsUpTo(k, Len(datasets[k])))
               /\ Len(FileLines(k))
                    = Cardinality({i \in 1..Len(datasets[k]) :
                                     EncodeError(datasets[k][i].image) = "none"})
          /\ \A k \in (1..Len(splits)) \ SplitsDone :
               files[DatasetFile(splits[k])] \in {NoFile, StaleFile})
    /\ [][/\ (wpc = "split" /\ wpc' = "rows") => (json_data' = <<>> /\ idx' = 0 /\ files' = files)
          /\ split_i' \in {split_i, split_i + 1}
          /\ split_i' = split_i => files' = files
          /\ split_i' = split_i + 1 =>
               /\ wpc = "rows"
               /\ idx = Len(datasets[split_i])
               /\ \A f \in FileNames :
                    f # DatasetFile(splits[split_i]) => files'[f] = files[f]
               /\ files'[DatasetFile(splits[split_i])]
                    = [exists |-> TRUE, content |-> FileContent(json_data)]]_vars

\* C22 witness: all splits are written; the files of train and val, which an
\* earlier run had left behind, hold one record each, built from the one row
\* of their own split, and the two files differ
C22_Witness ==
    /\ wpc = "done"
    /\ Len(datasets[1]) = 1
    /\ Len(datasets[2]) = 1
    /\ datasets[1] # datasets[2]
    /\ Len(FileLines(1)) = 1
    /\ Len(FileLines(2)) = 1
    /\ FileLines(1) # FileLines(2)
    /\ files[DatasetFile("train")].content = FileContent(RecordsUpTo(1, 1))
    /\ files[DatasetFile("val")].content = FileContent(RecordsUpTo(2, 1))
    /\ files[DatasetFile("train")] # StaleFile
    /\ files[DatasetFile("val")] # StaleFile
    /\ files[DatasetFile("test")].content = <<>>

====
